---- MODULE Spec2Model ----
(***************************************************************************)
(* flowCAD: equipment network graph, ports, and the simulation pipeline.   *)
(*                                                                         *)
(* Python strings are TLA+ strings (f-strings are \o).  Python's None is   *)
(* the string None below, which is no id of the model.                     *)
(***************************************************************************)
EXTENDS Integers, Sequences, FiniteSets, TLC

VARIABLES
    port,         \* SpecPort: one Port object, Port("P1", "E1")
    pcall,        \* SpecPort: the last call on it, its outcome, the port before it
    equipments,   \* NetworkEquipment.equipments: a list of equipment objects
    ports,        \* the Port objects: port object -> its fields
    connections,  \* NetworkEquipment.connections: port id -> connection name
    ncall,        \* the last call on the network, its outcome, what it left as it was
    direct,       \* the number of calls made on port objects directly
    elevation,    \* equipment object -> its elevation attribute
    results,      \* equipment object -> its result attributes and its ports'
    manager,      \* the SimulationManager the caller holds, and its network
    pc,           \* where run_simulation is: Idle, Solving, Harvesting
    run,          \* the record of the current or last simulation run
    rkind,        \* SpecRes: the variant of the one equipment
    rres,         \* SpecRes: its result attributes and its ports'
    rcall,        \* SpecRes: the last get_simulation_results call on it
    hnet,         \* SpecHyd: a HydraulicNetwork, its nodes and links by id
    hcall,        \* SpecHyd: the last add_node or add_link call on it
    fcall,        \* SpecFactory: the last EquipmentFactory._create_instance call
    fgen,         \* SpecFactory: the translation of the equipment it created
    zcall,        \* SpecZeta: the last two zeta_from_kv calls, at one diameter
    units,        \* SpecUnits: UnitManager.pressure_unit and flow_unit
    ucall,        \* SpecUnits: the last conversion call on the UnitManager
    gitem,        \* SpecGui: the item of the canvas, its properties and results
    gpc,          \* SpecGui: where the handler being run is: Idle when none is
    grun,         \* SpecGui: the business equipment of the run under way
    gcall         \* SpecGui: the last handler step taken

portVars == <<port, pcall>>
netVars  == <<equipments, ports, connections, ncall, direct>>
simVars  == <<elevation, results, manager, pc, run>>
resVars  == <<rkind, rres, rcall>>
hydVars  == <<hnet, hcall>>
facVars  == <<fcall, fgen>>
cnvVars  == <<zcall>>
unitVars == <<units, ucall>>
guiVars  == <<gitem, gpc, grun, gcall>>
libVars  == <<hydVars, facVars, cnvVars, unitVars, guiVars>>
vars     == <<portVars, netVars, simVars, resVars, libVars>>

None == "<None>"

\* Python truthiness of an Optional[str]: `not x` is true of None and of "".
Truthy(x) == x # None /\ x # ""

\* isinstance(x, str)
IsStr(x) == x # None

\* str.strip() on the strings the model passes around: the ones with
\* surrounding whitespace lose it, every other one is returned as it is.
Strip(s) ==
    CASE s = " "    -> ""
      [] s = " E2 " -> "E2"
      [] s = " P2 " -> "P2"
      [] OTHER      -> s

(***************************************************************************)
(* Port                                                                    *)
(***************************************************************************)

\* Port.__init__: ids are stripped, the port starts free.
NewPort(port_id, parent_equipment_id) ==
    [ id                     |-> Strip(port_id),
      parent_equipment_id    |-> Strip(parent_equipment_id),
      is_connected           |-> FALSE,
      connected_to_equipment |-> None,
      connected_to_port      |-> None ]

\* The outcome of a call on a port: the port after it and the exception, if any.
Returned(p)  == [port |-> p, raised |-> "no"]
Raised(p, e) == [port |-> p, raised |-> e]

\* Port.connect, lines 69-76: the flag and the peer ids are assigned first and
\* each stripped id is checked after its assignment.
ConnectAssign(self, other_equipment_id, other_port_id) ==
    LET p1 == [self EXCEPT !.is_connected = TRUE,
                           !.connected_to_equipment = Strip(other_equipment_id)]
        p2 == [p1 EXCEPT !.connected_to_port = Strip(other_port_id)]
    IN  IF ~Truthy(p1.connected_to_equipment) THEN Raised(p1, "ValueError")
        ELSE IF ~Truthy(p2.connected_to_port) THEN Raised(p2, "ValueError")
        ELSE Returned(p2)

\* Port.connect without the test of lines 61-62 for the port's own ids.
PortConnectNoSelfCheck(self, other_equipment_id, other_port_id) ==
    IF self.is_connected THEN Raised(self, "AttributeError")
    ELSE IF ~Truthy(other_equipment_id) \/ ~IsStr(other_equipment_id)
        THEN Raised(self, "ValueError")
    ELSE IF ~Truthy(other_port_id) \/ ~IsStr(other_port_id)
        THEN Raised(self, "ValueError")
    ELSE ConnectAssign(self, other_equipment_id, other_port_id)

\* Port.connect.  The already-connected branch formats self.connected_to, an
\* attribute Port does not have: the call ends with AttributeError.
PortConnect(self, other_equipment_id, other_port_id) ==
    IF self.is_connected THEN Raised(self, "AttributeError")
    ELSE IF ~Truthy(other_equipment_id) \/ ~IsStr(other_equipment_id)
        THEN Raised(self, "ValueError")
    ELSE IF ~Truthy(other_port_id) \/ ~IsStr(other_port_id)
        THEN Raised(self, "ValueError")
    ELSE IF /\ self.parent_equipment_id = Strip(other_equipment_id)
            /\ self.id = Strip(other_port_id)
        THEN Raised(self, "ValueError")
    ELSE ConnectAssign(self, other_equipment_id, other_port_id)

\* Port.disconnect: the flag and the peer equipment are reset; line 82 is the
\* bare expression `self`, so connected_to_port keeps its value.
PortDisconnect(self) ==
    [self EXCEPT !.is_connected = FALSE, !.connected_to_equipment = None]

\* Port.validate: the list of problems, as short tags.
PortValidate(self) ==
    (IF ~Truthy(self.id) THEN <<"no id">> ELSE <<>>)
    \o (IF ~Truthy(self.parent_equipment_id) THEN <<"no parent">> ELSE <<>>)
    \o (IF self.is_connected /\ ~Truthy(self.connected_to_equipment)
        THEN <<"no peer equipment">> ELSE <<>>)
    \o (IF self.is_connected /\ ~Truthy(self.connected_to_port)
        THEN <<"no peer port">> ELSE <<>>)

(***************************************************************************)
(* One port driven by arbitrary calls                                      *)
(***************************************************************************)

\* The arguments tried for Port.connect on Port("P1", "E1").
EqArgs   == {None, "", " ", "E1", "E2", " E2 "}
PortArgs == {None, "", " ", "P1", "P2", " P2 "}

NoCall == [op |-> "new", eq |-> None, pt |-> None, raised |-> "no",
           before |-> NewPort("P1", "E1"), prevOp |-> "new", prevRaised |-> "no",
           errors |-> <<>>]

PortInit ==
    /\ port = NewPort("P1", "E1")
    /\ pcall = NoCall

CallConnect(e, q) ==
    LET r == PortConnect(port, e, q) IN
    /\ port' = r.port
    /\ pcall' = [op |-> "connect", eq |-> e, pt |-> q, raised |-> r.raised,
                 before |-> port, prevOp |-> pcall.op, prevRaised |-> pcall.raised,
                 errors |-> PortValidate(r.port)]

CallDisconnect ==
    /\ port' = PortDisconnect(port)
    /\ pcall' = [op |-> "disconnect", eq |-> None, pt |-> None, raised |-> "no",
                 before |-> port, prevOp |-> pcall.op, prevRaised |-> pcall.raised,
                 errors |-> PortValidate(PortDisconnect(port))]

PortNext ==
    \/ \E e \in EqArgs, q \in PortArgs : CallConnect(e, q) /\ UNCHANGED <<netVars, simVars, resVars, libVars>>
    \/ CallDisconnect /\ UNCHANGED <<netVars, simVars, resVars, libVars>>

(***************************************************************************)
(* Equipment objects and NetworkEquipment                                  *)
(***************************************************************************)

\* The equipment objects the callers hold.  Objects 2 and 3 are two objects
\* constructed with the same id.
Pool ==
    << [id |-> "X", kind |-> "PressureBC"],
       [id |-> "P", kind |-> "Pipe"],
       [id |-> "P", kind |-> "PressureBC"],
       [id |-> "Y", kind |-> "PressureBC"],
       [id |-> "Z", kind |-> "PressureBC"],
       [id |-> "Q", kind |-> "Pipe"],
       [id |-> "R", kind |-> "Resistance"],
       [id |-> "T", kind |-> "Tee"] >>

Obj == 1 .. Len(Pool)

\* The objects handed to the network in the runs of its own operations, and
\* the ones of the simulation runs (a reservoir, a pipe, a reservoir).
NetObj == {1, 2, 3}
SimObj == {1, 2, 4, 5}
\* The ones of them whose ports the simulation runs connect.
ConnectedObj == {1, 2, 4}
\* The ones of the series network: a boundary, two pipes, a boundary.
SeriesObj == {1, 2, 6, 4}
\* The ones of the mixed network: a boundary, a resistance, a tee.
MixedObj == {1, 7, 8}
\* The equipment whose elevation is edited between runs.
EditedObj == {1}

\* The number of ports each variant's constructor creates.
PortCount(kind) ==
    CASE kind \in {"PressureBC", "FlowRateBC"} -> 1
      [] kind \in {"Pump", "Pipe", "Resistance", "Valve"} -> 2
      [] kind \in {"ThreeWayValve", "Tee"} -> 3

PortSuffix == <<"_P1", "_P2", "_P3">>

\* A port object is <<o, k>>, port k of equipment object o; <<0, 1>> is a port
\* object no equipment owns, constructed as Port("P_P1", "Z").
OwnedPorts(o) == {<<o, k>> : k \in 1 .. PortCount(Pool[o].kind)}
FreePort == <<0, 1>>
PortObj == UNION {OwnedPorts(o) : o \in Obj} \cup {FreePort}
NetPortObj == UNION {OwnedPorts(o) : o \in NetObj} \cup {FreePort}
SimPortObj == UNION {OwnedPorts(o) : o \in SimObj}

\* The ports as the constructors leave them: port_id = f"{id}_P1", ...
ConstructedPort(r) ==
    IF r = FreePort THEN NewPort("P_P1", "Z")
    ELSE NewPort(Pool[r[1]].id \o PortSuffix[r[2]], Pool[r[1]].id)

\* BaseEquipment.id
EqId(o) == Strip(Pool[o].id)

\* The keys of equipment.ports (BaseEquipment.add_port keys a port by its id).
PortIds(o) == {ConstructedPort(r).id : r \in OwnedPorts(o)}

EmptyDict == [k \in {} |-> None]
DictSet(d, k, v) == [x \in DOMAIN d \cup {k} |-> IF x = k THEN v ELSE d[x]]

InList(o, list) == \E i \in 1 .. Len(list) : list[i] = o

\* The outcome of a call on the network.
NetOutcome(eqs, ps, conn, exc) ==
    [equipments |-> eqs, ports |-> ps, connections |-> conn, raised |-> exc]

\* NetworkEquipment.add_equipment: `equipment in self.equipments` compares
\* objects (BaseEquipment defines no __eq__), not ids.
add_equipment(eqs, ps, conn, equipment) ==
    IF InList(equipment, eqs) THEN NetOutcome(eqs, ps, conn, "ValueError")
    ELSE NetOutcome(Append(eqs, equipment), ps, conn, "no")

\* NetworkEquipment.connectEquipments.  The two Port.connect calls run one after
\* the other on the port objects, so the second sees what the first did.
connectEquipments(eqs, ps, conn, equipment1, port1, equipment2, port2) ==
    IF ~InList(equipment1, eqs) THEN NetOutcome(eqs, ps, conn, "ValueError")
    ELSE IF ~InList(equipment2, eqs) THEN NetOutcome(eqs, ps, conn, "ValueError")
    ELSE IF ps[port1].id \notin PortIds(equipment1)
        THEN NetOutcome(eqs, ps, conn, "ValueError")
    ELSE IF ps[port2].id \notin PortIds(equipment2)
        THEN NetOutcome(eqs, ps, conn, "ValueError")
    ELSE IF ps[port1].is_connected THEN NetOutcome(eqs, ps, conn, "ValueError")
    ELSE IF ps[port2].is_connected THEN NetOutcome(eqs, ps, conn, "ValueError")
    ELSE
      LET r1  == PortConnect(ps[port1], EqId(equipment2), ps[port2].id)
          ps1 == [ps EXCEPT ![port1] = r1.port]
          r2  == PortConnect(ps1[port2], EqId(equipment1), ps1[port1].id)
          ps2 == [ps1 EXCEPT ![port2] = r2.port]
          connection_name == ps2[port1].id \o "_to_" \o ps2[port2].id
      IN  IF r1.raised # "no" THEN NetOutcome(eqs, ps1, conn, r1.raised)
          ELSE IF r2.raised # "no" THEN NetOutcome(eqs, ps2, conn, r2.raised)
          ELSE NetOutcome(eqs, ps2,
                          DictSet(DictSet(conn, ps2[port1].id, connection_name),
                                  ps2[port2].id, connection_name),
                          "no")

\* How many calls a run makes on port objects directly, past NetworkEquipment.
MaxDirect == 1

NetInit ==
    /\ direct = 0
    /\ equipments = <<>>
    /\ ports = [r \in PortObj |-> ConstructedPort(r)]
    /\ connections = EmptyDict
    /\ ncall = [op |-> "new", raised |-> "no", idPresent |-> FALSE,
                equipmentsKept |-> TRUE, portsKept |-> TRUE,
                connectionsKept |-> TRUE, errors |-> <<>>, network |-> <<>>]

\* A call and its record: what was called, how it ended, whether it was given
\* an equipment whose id an equipment of the list already had, which parts
\* of the state are exactly as they were before the call, and the list or the
\* network it returned, if it returns one.
NetCall(op, out, idPresent) ==
    /\ equipments' = out.equipments
    /\ ports' = out.ports
    /\ connections' = out.connections
    /\ ncall' = [op |-> op, raised |-> out.raised, idPresent |-> idPresent,
                 equipmentsKept |-> (out.equipments = equipments),
                 portsKept |-> (out.ports = ports),
                 connectionsKept |-> (out.connections = connections),
                 errors |-> <<>>, network |-> <<>>]

AddEquipment(o) ==
    /\ NetCall("add_equipment", add_equipment(equipments, ports, connections, o),
               \E i \in 1 .. Len(equipments) : EqId(equipments[i]) = EqId(o))
    /\ UNCHANGED direct

ConnectEquipments(e1, p1, e2, p2) ==
    /\ NetCall("connectEquipments",
               connectEquipments(equipments, ports, connections, e1, p1, e2, p2),
               FALSE)
    /\ UNCHANGED direct

\* Port.connect called on a port object directly, with another port's owner
\* id and port id.
DirectConnect(r, q) ==
    LET out == PortConnect(ports[r], ports[q].parent_equipment_id, ports[q].id) IN
    /\ direct < MaxDirect
    /\ direct' = direct + 1
    /\ NetCall("Port.connect",
               NetOutcome(equipments, [ports EXCEPT ![r] = out.port], connections,
                          out.raised),
               FALSE)

\* Port.disconnect called on a port object directly.
DirectDisconnect(r) ==
    /\ direct < MaxDirect
    /\ direct' = direct + 1
    /\ NetCall("Port.disconnect",
               NetOutcome(equipments, [ports EXCEPT ![r] = PortDisconnect(ports[r])],
                          connections, "no"),
               FALSE)

\* The message of NetworkEquipment.validate_flowcad for one port (the
\* f-string of line 64, its accents left out).
UnconnectedMessage(port_id, equipment_id) ==
    "Le port '" \o port_id \o "' de l'equipement '" \o equipment_id
        \o "' n'est pas connecte."

\* The inner loop of validate_flowcad with only the first port of the
\* equipment looked at.
EquipmentErrorsFirstPort(o, ps) ==
    IF ~ps[<<o, 1>>].is_connected
    THEN << UnconnectedMessage(ps[<<o, 1>>].id, EqId(o)) >>
    ELSE <<>>

\* NetworkEquipment.validate_flowcad, the inner loop: the messages of one
\* equipment, one for each of its ports whose is_connected is false, in the
\* order of equipment.ports.
EquipmentErrors(o, ps) ==
    LET all == [k \in 1 .. PortCount(Pool[o].kind) |-> <<o, k>>]
        un  == SelectSeq(all, LAMBDA r : ~ps[r].is_connected)
    IN [i \in 1 .. Len(un) |-> UnconnectedMessage(ps[un[i]].id, EqId(o))]

\* NetworkEquipment.validate_flowcad: the loop over the equipment list.
RECURSIVE validate_flowcad(_, _)
validate_flowcad(eqs, ps) ==
    IF eqs = <<>> THEN <<>>
    ELSE EquipmentErrors(Head(eqs), ps) \o validate_flowcad(Tail(eqs), ps)

\* A call of validate_flowcad: it assigns nothing and returns the list.
ValidateFlowcad ==
    /\ ncall' = [op |-> "validate_flowcad", raised |-> "no",
                 idPresent |-> FALSE, equipmentsKept |-> TRUE,
                 portsKept |-> TRUE, connectionsKept |-> TRUE,
                 errors |-> validate_flowcad(equipments, ports),
                 network |-> <<>>]
    /\ UNCHANGED <<equipments, ports, connections, direct>>

(***************************************************************************)
(* The hydraulic network and the translation of the equipment graph.       *)
(***************************************************************************)

\* An Optional[float]: <<>> is None, <<x>> is the number x.  Lengths, heads
\* and elevations are whole metres.
Absent == <<>>
Some(x) == <<x>>
Value(v) == v[1]

\* HydraulicConverter.P_mCE_to_Pa: rho * g * pressure_mCE with rho = 1000 and
\* g = 9.81.
P_mCE_to_Pa(pressure_mCE) == 9810 * pressure_mCE

\* HydraulicConverter.pressure_to_head: pressure_bar * 1e5 / (rho * g) +
\* elevation (z), rho = 1000 and g = 9.81, the quotient rounded down to a metre.
pressure_to_head(pressure_bar, z) ==
    ((pressure_bar * 100000 * 100) \div (1000 * 981)) + z

\* The constructors' defaults for the boundary conditions' own parameter.
DefaultPressureBar == 0
DefaultFlowrate == 0

\* Junction.__init__ and Reservoir.__init__ (HydraulicComponent.__init__
\* strips the id).  head and pressure of a junction are the result attributes,
\* absent until results are read; a reservoir is constructed with its head.
Junction(component_id, z, demand) ==
    [type |-> "Junction", id |-> Strip(component_id), elevation |-> z,
     demand |-> Some(demand), head |-> Absent, pressure |-> Absent]

Reservoir(component_id, head, z) ==
    [type |-> "Reservoir", id |-> Strip(component_id), elevation |-> z,
     demand |-> Absent, head |-> Some(head), pressure |-> Absent]

\* Pipe.__init__, Pump.__init__, Valve.__init__: a link between two node ids,
\* its result attributes absent.
Link(type, component_id, start_node, end_node) ==
    [type |-> type, id |-> Strip(component_id),
     start_node |-> start_node, end_node |-> end_node,
     flowrate |-> Absent, velocity |-> Absent, headloss |-> Absent,
     frictionfactor |-> Absent]

IsNode(component) == component.type \in {"Junction", "Reservoir"}

\* connections[f"{id}_Pk"] (conn is the registry), for each port the variant reads.
HasPorts(id, n, conn) ==
    \A k \in 1 .. n : (id \o PortSuffix[k]) \in DOMAIN conn

\* generate_hydraulic_representation of each variant: the components, or
\* KeyError when a port id of the equipment is no key of the registry.  The
\* resistance constructs its Pipe with the keyword initial_status, which
\* Pipe.__init__ does not have (its parameter is status): TypeError.
generate_hydraulic_representation(kind, id, elev, conn) ==
    IF ~HasPorts(id, PortCount(kind), conn)
    THEN [raised |-> "KeyError", components |-> <<>>]
    ELSE IF kind = "Resistance"
    THEN [raised |-> "TypeError", components |-> <<>>]
    ELSE
      LET N(k) == conn[id \o PortSuffix[k]]
          J(k) == Junction(N(k), elev, 0)
          J4   == Junction(id \o "_Mid", elev, 0)
      IN [raised |-> "no", components |->
          CASE kind = "PressureBC" ->
                 << Reservoir(N(1), pressure_to_head(DefaultPressureBar, elev),
                              elev) >>
            [] kind = "FlowRateBC" ->
                 << Junction(N(1), elev, 0 - DefaultFlowrate) >>
            [] kind = "Pump" ->
                 << J(1), J(2), Link("Pump", id, J(1).id, J(2).id) >>
            [] kind = "Pipe" ->
                 << J(1), J(2), Link("Pipe", id, J(1).id, J(2).id) >>
            [] kind = "Valve" ->
                 << J(1), J(2), Link("Valve", id, J(1).id, J(2).id) >>
            [] kind = "ThreeWayValve" ->
                 << J(1), J(2), J(3), J4,
                    Link("Pipe", id \o "_Pipe1", J(1).id, J4.id),
                    Link("Valve", id \o "_Valve1", J4.id, J(2).id),
                    Link("Valve", id \o "_Valve2", J4.id, J(3).id) >>
            [] kind = "Tee" ->
                 << J(1), J(2), J(3), J4,
                    Link("Pipe", id \o "_Pipe1", J(1).id, J4.id),
                    Link("Pipe", id \o "_Pipe2", J(2).id, J4.id),
                    Link("Pipe", id \o "_Pipe3", J(3).id, J4.id) >>]

\* HydraulicNetwork.__init__
HydraulicNetwork == [nodes |-> EmptyDict, links |-> EmptyDict, raised |-> "no"]

\* HydraulicNetwork.add_node
add_node(net, node) ==
    IF node.id \in DOMAIN net.nodes THEN [net EXCEPT !.raised = "ValueError"]
    ELSE [net EXCEPT !.nodes = DictSet(@, node.id, node)]

\* add_link with the test of line 25 left out.
add_linkUnchecked(net, link) ==
    IF link.id \in DOMAIN net.links THEN [net EXCEPT !.raised = "ValueError"]
    ELSE [net EXCEPT !.links = DictSet(@, link.id, link)]

\* HydraulicNetwork.add_link
add_link(net, link) ==
    IF link.id \in DOMAIN net.links THEN [net EXCEPT !.raised = "ValueError"]
    ELSE IF link.start_node \notin DOMAIN net.nodes
            \/ link.end_node \notin DOMAIN net.nodes
        THEN [net EXCEPT !.raised = "ValueError"]
    ELSE [net EXCEPT !.links = DictSet(@, link.id, link)]

\* The body of the inner loop with the test of line 77 left out: every node
\* goes to add_node.
AddComponentUnguarded(net, component) ==
    IF IsNode(component) THEN add_node(net, component)
    ELSE add_link(net, component)

\* The body of the inner loop with the test of line 77 left out and the node
\* stored under its id whatever is there: the last writer of a node wins.
AddComponentLastWins(net, component) ==
    IF IsNode(component)
    THEN [net EXCEPT !.nodes = DictSet(@, component.id, component)]
    ELSE add_link(net, component)

\* NetworkEquipment.to_hydraulic_network, the body of the inner loop: a node
\* is added when its id is not a node id yet, a link is added with add_link.
AddComponent(net, component) ==
    IF IsNode(component)
    THEN IF component.id \notin DOMAIN net.nodes
         THEN add_node(net, component) ELSE net
    ELSE add_link(net, component)

\* NetworkEquipment.to_hydraulic_network, the inner loop over the components
\* of one equipment; an exception ends it.
RECURSIVE AddComponents(_, _)
AddComponents(net, components) ==
    IF components = <<>> \/ net.raised # "no" THEN net
    ELSE AddComponents(AddComponent(net, Head(components)), Tail(components))

\* NetworkEquipment.to_hydraulic_network, the loop over the equipment list.
RECURSIVE TranslateFrom(_, _, _, _)
TranslateFrom(net, eqs, conn, elev) ==
    IF eqs = <<>> \/ net.raised # "no" THEN net
    ELSE LET equipment == Head(eqs)
             rep == generate_hydraulic_representation(
                        Pool[equipment].kind, EqId(equipment), elev[equipment],
                        conn)
         IN IF rep.raised # "no" THEN [net EXCEPT !.raised = rep.raised]
            ELSE TranslateFrom(AddComponents(net, rep.components), Tail(eqs),
                               conn, elev)

to_hydraulic_network(eqs, conn, elev) ==
    TranslateFrom(HydraulicNetwork, eqs, conn, elev)

\* The ids the callers give to nodes, to links, and to the ends of links.
NodeIds == {"A", "B", "L"}
LinkIds == {"L", "A"}
EndIds  == {"A", "B", "C"}

HydInit ==
    /\ hnet = HydraulicNetwork
    /\ hcall = [op |-> "new", raised |-> "no", kept |-> TRUE,
                idInUse |-> FALSE, missingEnd |-> FALSE]

\* A call on the network and its record: how it ended, whether it left the
\* nodes and the links as they were, whether the id of the component was
\* already the id of a stored node or link, and whether an end of the link
\* was no stored node.
HydCall(op, out, component) ==
    /\ hnet' = [out EXCEPT !.raised = "no"]
    /\ hcall' = [op |-> op, raised |-> out.raised,
                 kept |-> (out.nodes = hnet.nodes /\ out.links = hnet.links),
                 idInUse |-> (component.id \in DOMAIN hnet.nodes
                              \/ component.id \in DOMAIN hnet.links),
                 missingEnd |-> (~IsNode(component)
                                 /\ (component.start_node \notin DOMAIN hnet.nodes
                                     \/ component.end_node \notin DOMAIN hnet.nodes))]

\* network.add_node(Junction(id, ...)) or network.add_node(Reservoir(id, ...))
AddNode(node) == HydCall("add_node", add_node(hnet, node), node)

\* network.add_link(Pipe(id, start_node, end_node, ...))
AddLink(link) == HydCall("add_link", add_link(hnet, link), link)

HydNext ==
    \/ \E id \in NodeIds :
          /\ \/ AddNode(Junction(id, 0, 0))
             \/ AddNode(Reservoir(id, 0, 0))
          /\ UNCHANGED <<guiVars, portVars, netVars, simVars, resVars, facVars, cnvVars, unitVars>>
    \/ \E id \in LinkIds, a, b \in EndIds :
          /\ AddLink(Link("Pipe", id, a, b))
          /\ UNCHANGED <<guiVars, portVars, netVars, simVars, resVars, facVars, cnvVars, unitVars>>

\* A to_hydraulic_network that empties the registry it has read.
ToHydraulicNetworkConsuming ==
    LET net == to_hydraulic_network(equipments, connections, elevation) IN
    /\ ncall' = [op |-> "to_hydraulic_network", raised |-> net.raised,
                 idPresent |-> FALSE, equipmentsKept |-> TRUE,
                 portsKept |-> TRUE, connectionsKept |-> FALSE,
                 errors |-> <<>>,
                 network |-> IF net.raised = "no" THEN <<net>> ELSE <<>>]
    /\ connections' = EmptyDict
    /\ UNCHANGED <<equipments, ports, direct>>

\* A call of to_hydraulic_network by the holder of the NetworkEquipment: it
\* returns the network or raises, and assigns nothing of the equipment graph.
ToHydraulicNetwork ==
    LET net == to_hydraulic_network(equipments, connections, elevation) IN
    /\ ncall' = [op |-> "to_hydraulic_network", raised |-> net.raised,
                 idPresent |-> FALSE, equipmentsKept |-> TRUE,
                 portsKept |-> TRUE, connectionsKept |-> TRUE,
                 errors |-> <<>>,
                 network |-> IF net.raised = "no" THEN <<net>> ELSE <<>>]
    /\ UNCHANGED <<equipments, ports, connections, direct>>

(***************************************************************************)
(* The results the equipment read back from the solved network.            *)
(***************************************************************************)

\* The result attributes of an equipment and of its ports ("P1.head" is
\* ports[f"{id}_P1"].head); an attribute a variant does not have, or has not
\* been given yet, is Absent.
Fields ==
    {"flowrate", "velocity", "headloss", "frictionfactor", "head_gain",
     "total_headloss", "flowrate_1", "flowrate_2", "flowrate_3",
     "head_1", "pressure_1", "head_2", "pressure_2", "head_3", "pressure_3",
     "P1.head", "P1.pressure", "P2.head", "P2.pressure", "P3.head",
     "P3.pressure"}

HeadField == <<"head_1", "head_2", "head_3">>
PressureField == <<"pressure_1", "pressure_2", "pressure_3">>
PortHeadField == <<"P1.head", "P2.head", "P3.head">>
PortPressureField == <<"P1.pressure", "P2.pressure", "P3.pressure">>

\* The result fields the constructors leave at None.
NoResults == [f \in Fields |-> Absent]

\* How get_simulation_results ends: the fields it leaves, and the exception.
Done(res)    == [results |-> res, raised |-> "no"]
Fail(res, e) == [results |-> res, raised |-> e]

NodeOf(id, k, conn) == conn[id \o PortSuffix[k]]

\* self.flowrate = link.flowrate if the link is found, None otherwise.
LinkFlow(network, link_id, field) ==
    IF link_id \in DOMAIN network.links
    THEN field :> network.links[link_id].flowrate
    ELSE field :> Absent

\* The four link results of a pipe and of a resistance.
LinkResults(network, link_id) ==
    IF link_id \in DOMAIN network.links
    THEN LET link == network.links[link_id] IN
         ("flowrate" :> link.flowrate)
         @@ ("headloss" :> Some(P_mCE_to_Pa(Value(link.headloss))))
         @@ ("velocity" :> link.velocity)
         @@ ("frictionfactor" :> link.frictionfactor)
    ELSE ("flowrate" :> Absent) @@ ("headloss" :> Absent)
         @@ ("velocity" :> Absent) @@ ("frictionfactor" :> Absent)

\* Head and pressure of port k and of end k, read from a node: the head
\* converted, the pressure from head - elevation of the node.
FromNode(k, node) ==
    (PortHeadField[k] :> Some(P_mCE_to_Pa(Value(node.head))))
    @@ (PortPressureField[k] :>
            Some(P_mCE_to_Pa(Value(node.head) - node.elevation)))
    @@ (HeadField[k] :> Some(P_mCE_to_Pa(Value(node.head))))
    @@ (PressureField[k] :>
            Some(P_mCE_to_Pa(Value(node.head) - node.elevation)))

\* The same four attributes set to None.
ResetNode(k) ==
    (PortHeadField[k] :> Absent) @@ (PortPressureField[k] :> Absent)
    @@ (HeadField[k] :> Absent) @@ (PressureField[k] :> Absent)

\* PumpEquipment.get_simulation_results.  Only node 1 is tested before both
\* nodes are read; the else branch ends with the bare expression
\* self.head_gain, so head_gain is not reset.
PumpResults(id, res, network, conn) ==
    LET r1 == LinkFlow(network, id, "flowrate") @@ res IN
    IF ~HasPorts(id, 2, conn) THEN Fail(r1, "KeyError")
    ELSE IF NodeOf(id, 1, conn) \in DOMAIN network.nodes
    THEN IF NodeOf(id, 2, conn) \notin DOMAIN network.nodes
         THEN Fail(r1, "KeyError")
         ELSE LET node1 == network.nodes[NodeOf(id, 1, conn)]
                  node2 == network.nodes[NodeOf(id, 2, conn)]
                  p1 == P_mCE_to_Pa(Value(node1.pressure))
                  p2 == P_mCE_to_Pa(Value(node2.pressure))
                  h1 == P_mCE_to_Pa(Value(node1.head))
                  h2 == P_mCE_to_Pa(Value(node2.head))
              IN Done(("P1.pressure" :> Some(p1)) @@ ("P2.pressure" :> Some(p2))
                      @@ ("P1.head" :> Some(h1)) @@ ("P2.head" :> Some(h2))
                      @@ ("pressure_1" :> Some(p1)) @@ ("head_1" :> Some(h1))
                      @@ ("pressure_2" :> Some(p2)) @@ ("head_2" :> Some(h2))
                      @@ ("head_gain" :> Some(h2 - h1)) @@ r1)
    ELSE Done(ResetNode(1) @@ ResetNode(2) @@ r1)

\* PressureBoundaryConditionEquipment.get_simulation_results and
\* FlowRateBoundaryConditionEquipment.get_simulation_results: the two fields
\* are written when the node is found, and there is no else branch.
BoundaryResults(id, elev, res, network, conn) ==
    IF ~HasPorts(id, 1, conn) THEN Fail(res, "KeyError")
    ELSE IF NodeOf(id, 1, conn) \in DOMAIN network.nodes
    THEN LET node == network.nodes[NodeOf(id, 1, conn)] IN
         Done(("head_1" :> Some(P_mCE_to_Pa(Value(node.head))))
              @@ ("pressure_1" :> Some(P_mCE_to_Pa(Value(node.head) - elev)))
              @@ res)
    ELSE Done(res)

\* The node part shared, statement for statement, by the resistance, the
\* valve and the pipe: under the variant's test both nodes are read, else the
\* node fields and total_headloss are reset.
TwoPortNodes(id, r1, network, conn, found) ==
    IF found
    THEN IF NodeOf(id, 1, conn) \notin DOMAIN network.nodes
            \/ NodeOf(id, 2, conn) \notin DOMAIN network.nodes
         THEN Fail(r1, "KeyError")
         ELSE LET node1 == network.nodes[NodeOf(id, 1, conn)]
                  node2 == network.nodes[NodeOf(id, 2, conn)]
              IN Done(("total_headloss" :>
                          Some(P_mCE_to_Pa(Value(node1.head))
                               - P_mCE_to_Pa(Value(node2.head))))
                      @@ FromNode(1, node1) @@ FromNode(2, node2) @@ r1)
    ELSE Done(("total_headloss" :> Absent) @@ ResetNode(1) @@ ResetNode(2)
              @@ r1)

\* HydraulicResistanceEquipment.get_simulation_results
ResistanceResults(id, res, network, conn) ==
    LET r1 == LinkResults(network, id) @@ res IN
    IF ~HasPorts(id, 2, conn) THEN Fail(r1, "KeyError")
    ELSE TwoPortNodes(id, r1, network, conn,
                      NodeOf(id, 1, conn) \in DOMAIN network.nodes)

\* ValveEquipment.get_simulation_results
ValveResults(id, res, network, conn) ==
    LET r1 == IF id \in DOMAIN network.links
              THEN ("flowrate" :> network.links[id].flowrate) @@ res
              ELSE ("flowrate" :> Absent) @@ ("headloss" :> Absent) @@ res
    IN
    IF ~HasPorts(id, 2, conn) THEN Fail(r1, "KeyError")
    ELSE TwoPortNodes(id, r1, network, conn,
                      NodeOf(id, 1, conn) \in DOMAIN network.nodes)

\* PipeConnectionEquipment.get_simulation_results.  The test is
\* `IdEquiv_P1 and IdEquiv_P2 in network.nodes`: node id 1 is only tested for
\* being a non-empty string.
PipeResults(id, res, network, conn) ==
    LET r1 == LinkResults(network, id) @@ res IN
    IF ~HasPorts(id, 2, conn) THEN Fail(r1, "KeyError")
    ELSE TwoPortNodes(id, r1, network, conn,
                      Truthy(NodeOf(id, 1, conn))
                      /\ NodeOf(id, 2, conn) \in DOMAIN network.nodes)

\* ThreeWayValveEquipment.get_simulation_results.  The else branch resets the
\* fields of ends 1 and 2 only.
ThreeWayValveResults(id, res, network, conn) ==
    LET r1 == LinkFlow(network, id \o "_Pipe1", "flowrate_1")
              @@ LinkFlow(network, id \o "_Valve1", "flowrate_2")
              @@ LinkFlow(network, id \o "_Valve2", "flowrate_3") @@ res
    IN
    IF ~HasPorts(id, 3, conn) THEN Fail(r1, "KeyError")
    ELSE IF NodeOf(id, 1, conn) \in DOMAIN network.nodes
    THEN IF NodeOf(id, 2, conn) \notin DOMAIN network.nodes
            \/ NodeOf(id, 3, conn) \notin DOMAIN network.nodes
         THEN Fail(r1, "KeyError")
         ELSE Done(FromNode(1, network.nodes[NodeOf(id, 1, conn)])
                   @@ FromNode(2, network.nodes[NodeOf(id, 2, conn)])
                   @@ FromNode(3, network.nodes[NodeOf(id, 3, conn)]) @@ r1)
    ELSE Done(("total_headloss" :> Absent) @@ ResetNode(1) @@ ResetNode(2)
              @@ r1)

\* TeeConnectionEquipment.get_simulation_results.  The test is
\* `IdEquiv_P1 and IdEquiv_P2 and IdEquiv_P3 in network.nodes`; the four
\* nodes are read under it.
TeeResults(id, res, network, conn) ==
    LET r1 == LinkFlow(network, id \o "_Pipe1", "flowrate_1")
              @@ LinkFlow(network, id \o "_Pipe2", "flowrate_2")
              @@ LinkFlow(network, id \o "_Pipe3", "flowrate_3") @@ res
    IN
    IF ~HasPorts(id, 3, conn) THEN Fail(r1, "KeyError")
    ELSE IF Truthy(NodeOf(id, 1, conn)) /\ Truthy(NodeOf(id, 2, conn))
            /\ NodeOf(id, 3, conn) \in DOMAIN network.nodes
    THEN IF NodeOf(id, 1, conn) \notin DOMAIN network.nodes
            \/ NodeOf(id, 2, conn) \notin DOMAIN network.nodes
            \/ (id \o "_Mid") \notin DOMAIN network.nodes
         THEN Fail(r1, "KeyError")
         ELSE Done(FromNode(1, network.nodes[NodeOf(id, 1, conn)])
                   @@ FromNode(2, network.nodes[NodeOf(id, 2, conn)])
                   @@ FromNode(3, network.nodes[NodeOf(id, 3, conn)]) @@ r1)
    ELSE Done(ResetNode(1) @@ ResetNode(2) @@ ResetNode(3) @@ r1)

\* get_simulation_results, by variant.
get_simulation_results(kind, id, elev, res, network, conn) ==
    CASE kind = "Pump" -> PumpResults(id, res, network, conn)
      [] kind \in {"PressureBC", "FlowRateBC"} ->
            BoundaryResults(id, elev, res, network, conn)
      [] kind = "Resistance" -> ResistanceResults(id, res, network, conn)
      [] kind = "Valve" -> ValveResults(id, res, network, conn)
      [] kind = "ThreeWayValve" -> ThreeWayValveResults(id, res, network, conn)
      [] kind = "Pipe" -> PipeResults(id, res, network, conn)
      [] kind = "Tee" -> TeeResults(id, res, network, conn)

\* NetworkEquipment.get_results_from_hydraulic_network: the equipment of the
\* list read their results in turn; an exception ends the loop where it is.
RECURSIVE ReadResultsFrom(_, _, _, _, _)
ReadResultsFrom(out, eqs, network, conn, elev) ==
    IF eqs = <<>> \/ out.raised # "no" THEN out
    ELSE LET equipment == Head(eqs)
             r == get_simulation_results(
                      Pool[equipment].kind, EqId(equipment), elev[equipment],
                      out.results[equipment], network, conn)
         IN ReadResultsFrom(
                [results |-> [out.results EXCEPT ![equipment] = r.results],
                 raised |-> r.raised],
                Tail(eqs), network, conn, elev)

get_results_from_hydraulic_network(eqs, res, network, conn, elev) ==
    ReadResultsFrom(Done(res), eqs, network, conn, elev)

(***************************************************************************)
(* SimulationManager: the hydraulic network built at construction, and     *)
(* run_simulation on it.                                                   *)
(***************************************************************************)

\* The constructors' default elevation, and the elevations an equipment is
\* given afterwards (equipment.elevation = z), in metres.
DefaultElevation == 0
MaxElevation == 1
Elevations == DefaultElevation .. MaxElevation

\* The values the solver computes for the junctions and the links of a run.
MaxSolverValue == 2
SolverValues == 1 .. MaxSolverValue

\* EpanetSimulator.run_sim on the translated network: the result tables.  The
\* solver is external; in its tables a reservoir has its own head and no
\* pressure, a junction has head v and pressure head - elevation, and every
\* result of a link is v.
SolverResults(net, v) ==
    [node |-> [n \in DOMAIN net.nodes |->
                 IF net.nodes[n].type = "Reservoir"
                 THEN [head |-> Value(net.nodes[n].head), pressure |-> 0]
                 ELSE [head |-> v, pressure |-> v - net.nodes[n].elevation]],
     link |-> [l \in DOMAIN net.links |->
                 [flowrate |-> v, velocity |-> v, headloss |-> v,
                  frictionfactor |-> v]]]

\* get_results_from_wntr of a node and of a link: the component takes its own
\* rows of the result tables.
NodeResultsFromWntr(node, wntr_results) ==
    [node EXCEPT !.head = Some(wntr_results.node[node.id].head),
                 !.pressure = Some(wntr_results.node[node.id].pressure)]

LinkResultsFromWntr(link, wntr_results) ==
    [link EXCEPT !.flowrate = Some(wntr_results.link[link.id].flowrate),
                 !.velocity = Some(wntr_results.link[link.id].velocity),
                 !.headloss = Some(wntr_results.link[link.id].headloss),
                 !.frictionfactor =
                     Some(wntr_results.link[link.id].frictionfactor)]

\* HydraulicNetwork.get_results_from_wntr
get_results_from_wntr(net, wntr_results) ==
    [net EXCEPT
       !.nodes = [n \in DOMAIN net.nodes |->
                    NodeResultsFromWntr(net.nodes[n], wntr_results)],
       !.links = [l \in DOMAIN net.links |->
                    LinkResultsFromWntr(net.links[l], wntr_results)]]

NoManager == [built |-> FALSE, hydraulic_network |-> HydraulicNetwork]

\* The record of a run: the phases it went through, how it ended and in which
\* phase, and the solver's value.
NoRun == [phases |-> <<>>, raised |-> "no", failedIn |-> "", value |-> 0]

SimInit ==
    /\ elevation = [o \in Obj |-> DefaultElevation]
    /\ results = [o \in Obj |-> NoResults]
    /\ manager = NoManager
    /\ pc = "Idle"
    /\ run = NoRun

\* equipment.elevation = z, between runs.
SetElevation(o, z) ==
    /\ pc = "Idle"
    /\ elevation[o] # z
    /\ elevation' = [elevation EXCEPT ![o] = z]
    /\ UNCHANGED <<results, manager, pc, run>>

\* SimulationManager.__init__: the equipment graph is translated here.  When
\* the translation raises no manager is constructed; the caller keeps the one
\* it had.
Construct ==
    LET net == to_hydraulic_network(equipments, connections, elevation) IN
    /\ pc = "Idle"
    /\ manager' = IF net.raised = "no"
                  THEN [built |-> TRUE, hydraulic_network |-> net]
                  ELSE manager
    /\ run' = [run EXCEPT !.phases = <<"Assembling">>, !.raised = net.raised,
                          !.failedIn = IF net.raised = "no" THEN ""
                                       ELSE "Assembling",
                          !.value = 0]
    /\ UNCHANGED <<elevation, results, pc>>

\* run_simulation, lines 30-44: the manager's network is handed to the
\* solver.  The run has an Assembling phase when the manager was constructed
\* for it, with no run and no failure since.
RunStart ==
    /\ pc = "Idle"
    /\ manager.built
    /\ pc' = "Solving"
    /\ run' = [phases |-> IF run.phases = <<"Assembling">> /\ run.raised = "no"
                          THEN <<"Assembling", "Solving">>
                          ELSE <<"Solving">>,
               raised |-> "no", failedIn |-> "", value |-> 0]
    /\ UNCHANGED <<elevation, results, manager>>

\* A run_simulation that would clear the equipment results when the solver
\* raises, which the code does not do.
SolverFailsClearing ==
    /\ pc = "Solving"
    /\ pc' = "Idle"
    /\ run' = [run EXCEPT !.raised = "SolverError", !.failedIn = "Solving"]
    /\ results' = [o \in Obj |-> NoResults]
    /\ UNCHANGED <<elevation, manager>>

\* run_simulation, lines 30-47: to_wntr or the solver raises, and the
\* exception leaves run_simulation.
SolverFails ==
    /\ pc = "Solving"
    /\ pc' = "Idle"
    /\ run' = [run EXCEPT !.raised = "SolverError", !.failedIn = "Solving"]
    /\ UNCHANGED <<elevation, results, manager>>

\* The networks the solver computes results for: EPANET refuses a network
\* with no reservoir, and one with a node that is the end of no link.
Solvable(net) ==
    /\ \E n \in DOMAIN net.nodes : net.nodes[n].type = "Reservoir"
    /\ \A n \in DOMAIN net.nodes :
          \E l \in DOMAIN net.links :
             n \in {net.links[l].start_node, net.links[l].end_node}

\* run_simulation, line 47: the solver returns its result tables.
SolverReturns(v) ==
    /\ pc = "Solving"
    /\ Solvable(manager.hydraulic_network)
    /\ pc' = "Harvesting"
    /\ run' = [run EXCEPT !.phases = Append(@, "Harvesting"), !.value = v]
    /\ UNCHANGED <<elevation, results, manager>>

\* run_simulation, lines 70-76: the components of the manager's network take
\* their results, then the equipment of the graph, as it is now, read theirs
\* from it.
Harvest ==
    LET net == get_results_from_wntr(
                   manager.hydraulic_network,
                   SolverResults(manager.hydraulic_network, run.value))
        out == get_results_from_hydraulic_network(
                   equipments, results, net, connections, elevation)
    IN
    /\ pc = "Harvesting"
    /\ pc' = "Idle"
    /\ manager' = [manager EXCEPT !.hydraulic_network = net]
    /\ results' = out.results
    /\ run' = [run EXCEPT !.raised = out.raised,
                          !.failedIn = IF out.raised = "no" THEN ""
                                       ELSE "Harvesting"]
    /\ UNCHANGED elevation

(***************************************************************************)
(* One equipment of each variant reading its results from solved networks. *)
(***************************************************************************)

Kinds ==
    {"Pump", "PressureBC", "FlowRateBC", "Resistance", "Valve",
     "ThreeWayValve", "Pipe", "Tee"}

\* The equipment is constructed with id "E"; the registry maps its ports to
\* the nodes N1, N2, N3.
ResId == "E"
ResConnections == ("E_P1" :> "N1") @@ ("E_P2" :> "N2") @@ ("E_P3" :> "N3")

\* The node ids and the link ids of the equipment: the nodes of its ports
\* and its middle node, and the links it reads its flows from.
OwnNodeIds(kind) ==
    {ResConnections[ResId \o PortSuffix[k]] : k \in 1 .. PortCount(kind)}
    \cup (IF kind \in {"ThreeWayValve", "Tee"} THEN {ResId \o "_Mid"} ELSE {})

OwnLinkIds(kind) ==
    CASE kind \in {"PressureBC", "FlowRateBC"} -> {}
      [] kind \in {"Pump", "Resistance", "Valve", "Pipe"} -> {ResId}
      [] kind = "ThreeWayValve" ->
            {ResId \o "_Pipe1", ResId \o "_Valve1", ResId \o "_Valve2"}
      [] kind = "Tee" ->
            {ResId \o "_Pipe1", ResId \o "_Pipe2", ResId \o "_Pipe3"}

\* A solved network with the nodes ns, as junctions, and the links ls.
SolvedNetwork(ns, ls, v) ==
    LET net == [nodes |-> [n \in ns |-> Junction(n, DefaultElevation, 0)],
                links |-> [l \in ls |-> Link("Pipe", l, "N1", "N2")],
                raised |-> "no"]
    IN get_results_from_wntr(net, SolverResults(net, v))

ResInit ==
    /\ rkind = "Pump"
    /\ rres = NoResults
    /\ rcall = [op |-> "new", raised |-> "no", nodes |-> {}, links |-> {}]

\* The constructor of a variant: a new equipment, its result fields None.
NewEquipment(kind) ==
    /\ rkind' = kind
    /\ rres' = NoResults
    /\ rcall' = [op |-> "new", raised |-> "no", nodes |-> {}, links |-> {}]

\* equipment.get_simulation_results(network, connections), and its record:
\* how it ended and which node and link ids the network had.
ReadResults(ns, ls, v) ==
    LET net == SolvedNetwork(ns, ls, v)
        out == get_simulation_results(rkind, ResId, DefaultElevation, rres,
                                      net, ResConnections)
    IN
    /\ rres' = out.results
    /\ rcall' = [op |-> "get_simulation_results", raised |-> out.raised,
                 nodes |-> ns, links |-> ls]
    /\ UNCHANGED rkind

ResNext ==
    \/ \E kind \in Kinds :
          NewEquipment(kind) /\ UNCHANGED <<portVars, netVars, simVars, libVars>>
    \/ \E v \in SolverValues :
          \E ns \in SUBSET OwnNodeIds(rkind),
             ls \in {{}, OwnLinkIds(rkind)} :
            ReadResults(ns, ls, v) /\ UNCHANGED <<portVars, netVars, simVars, libVars>>

(***************************************************************************)
(* HydraulicConverter.zeta_from_kv and the equipment factory.              *)
(* Kv values are in thousandths of m3/h, diameters in cm, flow rates in    *)
(* cm3/s and velocities in whole cm/s; divisions round down.               *)
(***************************************************************************)

Abs(x) == IF x < 0 THEN 0 - x ELSE x

\* HydraulicConverter.zeta_from_nominal_conditions, fluid density 1000:
\* V = 4 |Q| / (3.14159 d^2); 0.0 when V is 0, else 2 dP / (rho V^2).
zeta_from_nominal_conditions(flow_rate, head_loss_kPa, diameter) ==
    LET velocity == (4 * Abs(flow_rate) * 100000)
                        \div (314159 * diameter * diameter)
    IN IF velocity = 0 THEN 0
       ELSE (2 * head_loss_kPa * 1000 * 10000) \div (velocity * velocity * 1000)

\* HydraulicConverter.zeta_from_kv: the flow is kv/3600, the head loss 100 kPa.
zeta_from_kv(kv, diameter) ==
    zeta_from_nominal_conditions((kv * 1000) \div 3600, 100, diameter)

\* The property bag's opening_value: absent, a number (a percentage), or a
\* text that is no number.
Openings == {0 - 1, 0, 25, 49, 50, 75, 100, 101}
OpeningValues ==
    {[t |-> "absent", v |-> 0], [t |-> "text", v |-> 0]}
        \cup {[t |-> "number", v |-> n] : n \in Openings}

\* properties.get('opening_value', 100)
GetOpening(opening) ==
    IF opening.t = "absent" THEN [t |-> "number", v |-> 100] ELSE opening

\* float(opening_value): the number, or ValueError for a text that is none.
Float(x) ==
    IF x.t = "number" THEN [raised |-> "no", value |-> x.v]
    ELSE [raised |-> "ValueError", value |-> 0]

\* e**(3 * (opening/100 - 1)) in thousandths, for the openings of 40 and more.
ExpLaw ==
    (40 :> 165) @@ (49 :> 216) @@ (50 :> 223) @@ (75 :> 472) @@ (100 :> 1000)

\* The outcome of _create_instance: the exception, or the equipment created
\* with its status, its zeta and its setting, and the effective Kv computed.
\* For a three-way valve status, kv_eff and setting are those of branch 1 and
\* status_2, kv_eff_2 and setting_2 those of branch 2.
NotCreated(exc) ==
    [raised |-> exc, created |-> FALSE, class |-> "", status |-> "",
     kv_eff |-> 0, zeta |-> 0, setting |-> 0,
     status_2 |-> "", kv_eff_2 |-> 0, setting_2 |-> 0]

Created(class, status, kv_eff, zeta, setting) ==
    [raised |-> "no", created |-> TRUE, class |-> class, status |-> status,
     kv_eff |-> kv_eff, zeta |-> zeta, setting |-> setting,
     status_2 |-> "", kv_eff_2 |-> 0, setting_2 |-> 0]

\* The status of the two laws that check the range: lines 119-124, 132-137.
RangeStatus(opening_value) ==
    IF opening_value = 0 THEN "CLOSED"
    ELSE IF opening_value = 100 THEN "OPEN"
    ELSE "ACTIVE"

\* max(0.0, min(100.0, opening_value))
Clamp(opening_value) ==
    IF opening_value < 0 THEN 0
    ELSE IF opening_value > 100 THEN 100 ELSE opening_value

\* The linear law with CLOSED given to every opening below 100.
LinearLawNeverActive(opening_value, kv_s) ==
    [status |-> IF opening_value = 100 THEN "OPEN" ELSE "CLOSED",
     kv_eff |-> (kv_s * opening_value) \div 100]

\* _create_instance, the linear law (lines 118-126), after the range check.
LinearLaw(opening_value, kv_s) ==
    [status |-> RangeStatus(Clamp(opening_value)),
     kv_eff |-> (kv_s * Clamp(opening_value)) \div 100]

\* _create_instance, the equal_percentage law (lines 131-149).
EqualPercentageLaw(opening_value, kv_s) ==
    LET o == Clamp(opening_value) IN
    [status |-> RangeStatus(o),
     kv_eff |-> IF o < 40 THEN (kv_s * o * ExpLaw[40]) \div (40 * 1000)
                ELSE (ExpLaw[o] * kv_s) \div 1000]

\* _create_instance for ValveEquipment (lines 100-179).
CreateValve(opening, control, kv_s, diameter) ==
    LET f == Float(GetOpening(opening))
        zeta == zeta_from_kv(kv_s, diameter)
        Make(law, z) ==
            Created("ValveEquipment", law.status, law.kv_eff, z,
                    zeta_from_kv(law.kv_eff, diameter))
    IN
    IF control = "linear" THEN
        IF f.raised # "no" THEN NotCreated(f.raised)
        ELSE IF f.value < 0 \/ f.value > 100 THEN NotCreated("ValueError")
        ELSE Make(LinearLaw(f.value, kv_s), zeta)
    ELSE IF control = "equal_percentage" THEN
        IF f.raised # "no" THEN NotCreated(f.raised)
        ELSE IF f.value < 0 \/ f.value > 100 THEN NotCreated("ValueError")
        ELSE Make(EqualPercentageLaw(f.value, kv_s), zeta)
    ELSE IF control = "binary" THEN
        IF f.raised # "no" THEN NotCreated(f.raised)
        ELSE Make([status |-> IF f.value < 50 THEN "CLOSED" ELSE "OPEN",
                   kv_eff |-> kv_s],
                  zeta_from_kv(kv_s, diameter))
    ELSE NotCreated("ValueError")

\* _create_instance for HydraulicResistanceEquipment (lines 55-78): no branch
\* assigns initial_status for a type that is neither CAR nor V1 nor Vb, and
\* line 77 reads it.
CreateResistance(equipment_type, opening, zeta) ==
    IF equipment_type = "CAR"
    THEN Created("HydraulicResistanceEquipment", "OPEN", 0, zeta, 0)
    ELSE IF equipment_type \in {"V1", "Vb"} THEN
        LET f == Float(GetOpening(opening)) IN
        IF f.raised # "no" THEN NotCreated(f.raised)
        ELSE Created("HydraulicResistanceEquipment",
                     IF f.value >= 50 THEN "OPEN" ELSE "CLOSED", 0, zeta, 0)
    ELSE NotCreated("UnboundLocalError")

\* The linear law of the three-way valve with branch 2 given the effective
\* Kv and the status of branch 1.
ThreeWayLinearLawSameBranch(opening_value, kv_s) ==
    [status_1 |-> RangeStatus(Clamp(opening_value)),
     status_2 |-> RangeStatus(Clamp(opening_value)),
     kv_eff_1 |-> (kv_s * Clamp(opening_value)) \div 100,
     kv_eff_2 |-> (kv_s * Clamp(opening_value)) \div 100]

\* _create_instance, the linear law of the three-way valve (lines 200-212),
\* after the range check.
ThreeWayLinearLaw(opening_value, kv_s) ==
    LET o == Clamp(opening_value) IN
    [status_1 |-> IF o = 0 THEN "CLOSED" ELSE IF o = 100 THEN "OPEN"
                  ELSE "ACTIVE",
     status_2 |-> IF o = 0 THEN "OPEN" ELSE IF o = 100 THEN "CLOSED"
                  ELSE "ACTIVE",
     kv_eff_1 |-> (kv_s * o) \div 100,
     kv_eff_2 |-> (kv_s * (100 - o)) \div 100]

\* _create_instance for ThreeWayValveEquipment (lines 182-262).  The
\* equal_percentage branch is `pass`: it assigns neither kv_eff_1 nor
\* status_1, and line 242 reads kv_eff_1.
CreateThreeWayValve(opening, control, kv_s, diameter) ==
    LET f == Float(GetOpening(opening))
        zeta == zeta_from_kv(kv_s, diameter)
    IN
    IF control = "linear" THEN
        IF f.raised # "no" THEN NotCreated(f.raised)
        ELSE IF f.value < 0 \/ f.value > 100 THEN NotCreated("ValueError")
        ELSE LET law == ThreeWayLinearLaw(f.value, kv_s) IN
             [status_2 |-> law.status_2, kv_eff_2 |-> law.kv_eff_2,
              setting_2 |-> zeta_from_kv(law.kv_eff_2, diameter)]
             @@ Created("ThreeWayValveEquipment", law.status_1, law.kv_eff_1,
                        zeta, zeta_from_kv(law.kv_eff_1, diameter))
    ELSE IF control = "equal_percentage" THEN NotCreated("UnboundLocalError")
    ELSE NotCreated("ValueError")

\* The names equipment_classes binds: the classes it imports.
equipment_classes ==
    {"PumpEquipment", "PressureBoundaryConditionEquipment",
     "FlowRateBoundaryConditionEquipment", "HydraulicResistanceEquipment",
     "ValveEquipment", "PipeConnectionEquipment", "TeeConnectionEquipment"}

\* The class names of the equipment variants, and the values the item's
\* equipment_def.get('equipment_class') takes besides: a name of no variant,
\* and None when the key is absent.
EquipmentVariants == equipment_classes \cup {"ThreeWayValveEquipment"}
ClassNames == EquipmentVariants \cup {"SensorEquipment", None}

\* _create_instance (lines 43-265): the branch of the class's name, and
\* NotImplementedError for a class that has none.
create_instance(class, equipment_type, opening, control, kv_s, diameter) ==
    IF class \in {"PumpEquipment", "PressureBoundaryConditionEquipment",
                  "FlowRateBoundaryConditionEquipment",
                  "TeeConnectionEquipment"}
    THEN Created(class, "", 0, 0, 0)
    ELSE IF class = "HydraulicResistanceEquipment"
    THEN CreateResistance(equipment_type, opening, 100)
    ELSE IF class = "ValveEquipment"
    THEN CreateValve(opening, control, kv_s, diameter)
    ELSE IF class = "ThreeWayValveEquipment"
    THEN CreateThreeWayValve(opening, control, kv_s, diameter)
    ELSE NotCreated("NotImplementedError")

\* create_from_gui_item (lines 13-40): hasattr(equipment_classes, name) raises
\* TypeError for a name that is no string, the lookup fails with ValueError
\* for a name the module does not bind.
create_from_gui_item(class_name, equipment_type, opening, control, kv_s, diameter) ==
    IF ~IsStr(class_name) THEN NotCreated("TypeError")
    ELSE IF class_name \notin equipment_classes THEN NotCreated("ValueError")
    ELSE create_instance(class_name, equipment_type, opening, control, kv_s,
                         diameter)

\* The property bags and type selectors the factory is given.
ControlTypes == {"linear", "equal_percentage", "binary", "quadratic"}
RatedKv == {1000, 2500}
Diameters == {2, 5}
ResistanceTypes == {"CAR", "V1", "Vb", "R1"}

\* The id the factory gives the equipment, its port ids, and the registries
\* its representation is generated from: each port under a connection name,
\* or the third port under none.
FactoryId == "E"
FactoryPortIds == {FactoryId \o PortSuffix[k] : k \in 1 .. 3}
FactoryRegistries ==
    [FactoryPortIds -> {"c1", "c2", "c3"}]
        \cup {[p \in FactoryPortIds \ {FactoryId \o PortSuffix[3]} |-> "c1"]}

\* ThreeWayValveEquipment.generate_hydraulic_representation of the valve the
\* factory created: valve1 carries setting_1 and initial_status_1, valve2
\* setting_2 and initial_status_2, both the rated zeta as minor loss.
ThreeWayValveRepresentation(eq, id, conn) ==
    LET g == generate_hydraulic_representation("ThreeWayValve", id, 0, conn)
        Valve(link, setting, status) ==
            [setting |-> setting, status |-> status, minor_loss |-> eq.zeta,
             valve_type |-> "TCV"] @@ link
    IN IF g.raised # "no" THEN g
       ELSE [raised |-> "no", components |->
             [i \in 1 .. Len(g.components) |->
                IF i = 6 THEN Valve(g.components[i], eq.setting, eq.status)
                ELSE IF i = 7
                THEN Valve(g.components[i], eq.setting_2, eq.status_2)
                ELSE g.components[i]]]

NotGenerated ==
    [op |-> "new", conn |-> EmptyDict, raised |-> "no", components |-> <<>>]

FacInit ==
    /\ fcall = [op |-> "new", class_name |-> "", equipment_type |-> "", opening |-> [t |-> "absent", v |-> 0],
             control |-> "", kv_s |-> 0, diameter |-> 0, out |-> NotCreated("no")]
    /\ fgen = NotGenerated

\* EquipmentFactory._create_instance(ValveEquipment, id, properties, type)
CreateValveInstance(opening, control, kv_s, diameter) ==
    /\ fcall' = [op |-> "ValveEquipment", class_name |-> "ValveEquipment",
              equipment_type |-> "V2V_p",
              opening |-> opening, control |-> control, kv_s |-> kv_s,
              diameter |-> diameter,
              out |-> CreateValve(opening, control, kv_s, diameter)]
    /\ fgen' = NotGenerated

\* EquipmentFactory._create_instance(HydraulicResistanceEquipment, id,
\* properties, type), zeta taken from the property bag's default 0.1 (in
\* thousandths).
CreateResistanceInstance(equipment_type, opening, diameter) ==
    /\ fcall' = [op |-> "HydraulicResistanceEquipment",
              class_name |-> "HydraulicResistanceEquipment",
              equipment_type |-> equipment_type, opening |-> opening,
              control |-> "", kv_s |-> 0, diameter |-> diameter,
              out |-> CreateResistance(equipment_type, opening, 100)]
    /\ fgen' = NotGenerated

\* EquipmentFactory._create_instance(ThreeWayValveEquipment, id, properties,
\* type)
CreateThreeWayValveInstance(opening, control, kv_s, diameter) ==
    /\ fcall' = [op |-> "ThreeWayValveEquipment",
              class_name |-> "ThreeWayValveEquipment",
              equipment_type |-> "V3V_p",
              opening |-> opening, control |-> control, kv_s |-> kv_s,
              diameter |-> diameter,
              out |-> CreateThreeWayValve(opening, control, kv_s, diameter)]
    /\ fgen' = NotGenerated

\* generate_hydraulic_representation(connections) on the three-way valve
\* the factory returned.
GenerateThreeWayValve(conn) ==
    /\ fcall.out.created /\ fcall.out.class = "ThreeWayValveEquipment"
    /\ fgen' = [op |-> "generate_hydraulic_representation", conn |-> conn]
                @@ ThreeWayValveRepresentation(fcall.out, FactoryId, conn)
    /\ UNCHANGED fcall

\* EquipmentFactory.create_from_gui_item(gui_item)
CreateFromGuiItem(class_name, equipment_type, opening, control, kv_s, diameter) ==
    /\ fcall' = [op |-> "create_from_gui_item", class_name |-> class_name,
              equipment_type |-> equipment_type,
              opening |-> opening, control |-> control, kv_s |-> kv_s,
              diameter |-> diameter,
              out |-> create_from_gui_item(class_name, equipment_type,
                                           opening, control, kv_s, diameter)]
    /\ fgen' = NotGenerated

\* The opening values of the items create_from_gui_item is given.
GuiOpenings ==
    {o \in OpeningValues : o.t = "absent" \/ (o.t = "number" /\ o.v \in {50, 101})}

FacNext ==
    \/ \E conn \in FactoryRegistries :
          /\ GenerateThreeWayValve(conn)
          /\ UNCHANGED <<guiVars, portVars, netVars, simVars, resVars, hydVars, cnvVars, unitVars>>
    \/ \E opening \in OpeningValues, control \in ControlTypes,
          kv_s \in RatedKv, diameter \in Diameters :
          /\ CreateThreeWayValveInstance(opening, control, kv_s, diameter)
          /\ UNCHANGED <<guiVars, portVars, netVars, simVars, resVars, hydVars, cnvVars, unitVars>>
    \/ \E class_name \in ClassNames, equipment_type \in {"CAR", "R1"},
          opening \in GuiOpenings, control \in ControlTypes,
          kv_s \in {1000}, diameter \in {5} :
          /\ CreateFromGuiItem(class_name, equipment_type, opening, control,
                               kv_s, diameter)
          /\ UNCHANGED <<guiVars, portVars, netVars, simVars, resVars, hydVars, cnvVars, unitVars>>
    \/ \E opening \in OpeningValues, control \in ControlTypes,
          kv_s \in RatedKv, diameter \in Diameters :
          /\ CreateValveInstance(opening, control, kv_s, diameter)
          /\ UNCHANGED <<guiVars, portVars, netVars, simVars, resVars, hydVars, cnvVars, unitVars>>
    \/ \E equipment_type \in ResistanceTypes, opening \in OpeningValues,
          diameter \in Diameters :
          /\ CreateResistanceInstance(equipment_type, opening, diameter)
          /\ UNCHANGED <<guiVars, portVars, netVars, simVars, resVars, hydVars, cnvVars, unitVars>>

\* The Kv values zeta_from_kv is called with.
KvValues == {500 * n : n \in 0 .. 10}

ZetaInit ==
    zcall = [kv1 |-> 0, kv2 |-> 0, diameter |-> 0, zeta1 |-> 0, zeta2 |-> 0]

\* zeta_from_kv(kv1, d) and zeta_from_kv(kv2, d), called one after the other.
ZetaFromKv(kv1, kv2, diameter) ==
    zcall' = [kv1 |-> kv1, kv2 |-> kv2, diameter |-> diameter,
              zeta1 |-> zeta_from_kv(kv1, diameter),
              zeta2 |-> zeta_from_kv(kv2, diameter)]

ZetaNext ==
    \E kv1, kv2 \in KvValues, diameter \in Diameters :
        /\ ZetaFromKv(kv1, kv2, diameter)
        /\ UNCHANGED <<guiVars, portVars, netVars, simVars, resVars, hydVars, facVars,
                       unitVars>>

(***************************************************************************)
(* UnitManager.  A value is a fraction <<numerator, denominator>>.         *)
(***************************************************************************)

Frac(n) == <<n, 1>>
Times(a, b) == <<a[1] * b[1], a[2] * b[2]>>
SameValue(a, b) == a[1] * b[2] = b[1] * a[2]

PressureUnit == {"bar", "kPa", "Pa", "mCE"}
FlowUnit == {"m3/s", "m3/h", "L/s", "L/min", "L/h"}

\* UnitManager.__init__: the factors from Pa and m3/s to the display unit.
pressure_conversions ==
    [u \in PressureUnit |->
        CASE u = "bar" -> <<1, 100000>>
          [] u = "kPa" -> <<1, 1000>>
          [] u = "Pa"  -> <<1, 1>>
          [] u = "mCE" -> <<1, 9810>>]

flow_conversions ==
    [u \in FlowUnit |->
        CASE u = "m3/s"  -> <<1, 1>>
          [] u = "m3/h"  -> <<3600, 1>>
          [] u = "L/s"   -> <<1000, 1>>
          [] u = "L/min" -> <<60000, 1>>
          [] u = "L/h"   -> <<3600000, 1>>]

\* The factors to Pa with the water column taken at g = 10.
pressure_input_conversionsRoundG ==
    [u \in PressureUnit |->
        CASE u = "bar" -> <<100000, 1>>
          [] u = "kPa" -> <<1000, 1>>
          [] u = "Pa"  -> <<1, 1>>
          [] u = "mCE" -> <<1000 * 10, 1>>]

\* UnitManager.__init__: the factors from the display unit to Pa and m3/s.
pressure_input_conversions ==
    [u \in PressureUnit |->
        CASE u = "bar" -> <<100000, 1>>
          [] u = "kPa" -> <<1000, 1>>
          [] u = "Pa"  -> <<1, 1>>
          [] u = "mCE" -> <<9810, 1>>]

flow_input_conversions ==
    [u \in FlowUnit |->
        CASE u = "m3/s"  -> <<1, 1>>
          [] u = "m3/h"  -> <<1, 3600>>
          [] u = "L/s"   -> <<1, 1000>>
          [] u = "L/min" -> <<1, 60000>>
          [] u = "L/h"   -> <<1, 3600000>>]

\* The pressures in Pa and the flows in m3/s that are displayed.
Pressures == {0, 1, 250}
Flows == {0, 1, 2}

\* UnitManager.__init__ with no settings file: kPa and m3/s.
UnitInit ==
    /\ units = [pressure_unit |-> "kPa", flow_unit |-> "m3/s"]
    /\ ucall = [op |-> "new", unit |-> "", arg |-> Frac(0), ret |-> Frac(0),
                shown |-> Frac(0)]

\* set_pressure_unit and set_flow_unit (save_settings writes the file only).
SetPressureUnit(u) ==
    /\ units' = [units EXCEPT !.pressure_unit = u]
    /\ UNCHANGED ucall

SetFlowUnit(u) ==
    /\ units' = [units EXCEPT !.flow_unit = u]
    /\ UNCHANGED ucall

\* The record of a conversion: the unit it used, its argument, what it
\* returned, and the SI value whose display the argument is.
UnitCall(op, unit, arg, ret, shown) ==
    /\ ucall' = [op |-> op, unit |-> unit, arg |-> arg, ret |-> ret,
                 shown |-> shown]
    /\ UNCHANGED units

\* display_pressure(pressure_pa)
DisplayPressure(pressure_pa) ==
    UnitCall("display_pressure", units.pressure_unit, Frac(pressure_pa),
             Times(Frac(pressure_pa), pressure_conversions[units.pressure_unit]),
             Frac(pressure_pa))

\* input_pressure_to_pa(value, unit) on the value just displayed, in its unit.
InputPressureToPa ==
    /\ ucall.op = "display_pressure"
    /\ UnitCall("input_pressure_to_pa", ucall.unit, ucall.ret,
                Times(ucall.ret, pressure_input_conversions[ucall.unit]),
                ucall.shown)

\* display_flow(flow_m3s)
DisplayFlow(flow_m3s) ==
    UnitCall("display_flow", units.flow_unit, Frac(flow_m3s),
             Times(Frac(flow_m3s), flow_conversions[units.flow_unit]),
             Frac(flow_m3s))

\* input_flow_to_m3s(value, unit) on the value just displayed, in its unit.
InputFlowToM3s ==
    /\ ucall.op = "display_flow"
    /\ UnitCall("input_flow_to_m3s", ucall.unit, ucall.ret,
                Times(ucall.ret, flow_input_conversions[ucall.unit]),
                ucall.shown)

UnitNext ==
    \/ \E u \in PressureUnit :
          SetPressureUnit(u)
          /\ UNCHANGED <<guiVars, portVars, netVars, simVars, resVars, hydVars, facVars, cnvVars>>
    \/ \E u \in FlowUnit :
          SetFlowUnit(u)
          /\ UNCHANGED <<guiVars, portVars, netVars, simVars, resVars, hydVars, facVars, cnvVars>>
    \/ \E p \in Pressures :
          DisplayPressure(p)
          /\ UNCHANGED <<guiVars, portVars, netVars, simVars, resVars, hydVars, facVars, cnvVars>>
    \/ InputPressureToPa
          /\ UNCHANGED <<guiVars, portVars, netVars, simVars, resVars, hydVars, facVars, cnvVars>>
    \/ \E q \in Flows :
          DisplayFlow(q)
          /\ UNCHANGED <<guiVars, portVars, netVars, simVars, resVars, hydVars, facVars, cnvVars>>
    \/ InputFlowToM3s
          /\ UNCHANGED <<guiVars, portVars, netVars, simVars, resVars, hydVars, facVars, cnvVars>>

(***************************************************************************)
(* The canvas item, its edits, and run_complete_simulation.  The canvas    *)
(* holds one item: an equipment item, or the polyline of a pipe.           *)
(***************************************************************************)

GuiKinds == {"Valve", "Pump", "PressureBC", "Pipe"}
GuiProperties == {1, 2}

\* pipe_def["results"] as PolylineGraphicsItem.__init__ leaves it: eight keys
\* showing "0.0"; the results of an equipment item hold no key yet.
PolylineResultKeys ==
    {"flow_rate", "headloss", "velocity", "pressure_1", "head_1",
     "pressure_2", "head_2", "total_headloss"}

NewItem(kind) ==
    [kind |-> kind, properties |-> 1,
     results |-> IF kind = "Pipe" THEN [k \in PolylineResultKeys |-> Some(0)]
                 ELSE EmptyDict]

\* _extract_results_from_business_equipment: the key of the results and the
\* attribute it is read from; a key is given when the attribute is not None.
ExtractedAttribute ==
    ("flow_rate" :> "flowrate") @@ ("headloss" :> "headloss")
    @@ ("velocity" :> "velocity") @@ ("pressure_1" :> "pressure_1")
    @@ ("head_1" :> "head_1") @@ ("pressure_2" :> "pressure_2")
    @@ ("head_2" :> "head_2") @@ ("pressure_3" :> "pressure_3")
    @@ ("head_3" :> "head_3") @@ ("total_headloss" :> "total_headloss")
    @@ ("head_gain" :> "head_gain")

extract_results_from_business_equipment(business_eq) ==
    [k \in {x \in DOMAIN ExtractedAttribute :
               business_eq[ExtractedAttribute[x]] # Absent}
        |-> business_eq[ExtractedAttribute[k]]]

\* dict.update
DictUpdate(d, u) ==
    [k \in DOMAIN d \cup DOMAIN u |-> IF k \in DOMAIN u THEN u[k] ELSE d[k]]

\* EquipmentGraphicsItem.clear_results: every key of the results set to 0.0.
clear_results(res) == [k \in DOMAIN res |-> Some(0)]

\* update_properties with the results of every item cleared.
update_propertiesClearingAll(item, new_def) ==
    [item EXCEPT !.properties = new_def,
                 !.results = clear_results(item.results)]

\* EquipmentGraphicsItem.update_properties clears the results and updates
\* the properties; PolylineGraphicsItem.update_properties updates the
\* properties.
update_properties(item, new_def) ==
    [item EXCEPT !.properties = new_def,
                 !.results = IF item.kind = "Pipe" THEN item.results
                             ELSE clear_results(item.results)]

\* update_gui_with_results for the item: its results updated with the ones
\* extracted from its business equipment.
update_gui_with_results(item, business_eq) ==
    [item EXCEPT !.results =
        DictUpdate(item.results,
                   extract_results_from_business_equipment(business_eq))]

\* A handler is called from the event loop, which no handler re-enters: the
\* signal of the toolbar is connected to run_simulation directly, and
\* run_simulation calls run_complete_simulation and returns after it.
DispatchableAlways == TRUE

Dispatchable == gpc = "Idle"

NoGuiRun == [properties |-> 0, business_eq |-> NoResults]

GuiInit ==
    /\ gitem = NewItem("Valve")
    /\ gpc = "Idle"
    /\ grun = NoGuiRun
    /\ gcall = [op |-> "new", raised |-> "no"]

\* DrawingCanvas: the item of the canvas replaced by a new one.
AddItem(kind) ==
    /\ Dispatchable
    /\ gitem' = NewItem(kind)
    /\ gcall' = [op |-> "add_item", raised |-> "no"]
    /\ UNCHANGED <<gpc, grun>>

\* DrawingCanvas.update_equipment_properties / update_pipe_properties
UpdateProperties(new_def) ==
    /\ Dispatchable
    /\ gitem' = update_properties(gitem, new_def)
    /\ gcall' = [op |-> "update_properties", raised |-> "no"]
    /\ UNCHANGED <<gpc, grun>>

\* MainWindow.run_simulation, run_complete_simulation up to step 2:
\* NetworkBuilder.build_from_canvas creates the business equipment from the
\* item's properties, its result attributes None.
RunBuild ==
    /\ Dispatchable
    /\ gpc' = "Solving"
    /\ grun' = [properties |-> gitem.properties, business_eq |-> NoResults]
    /\ gcall' = [op |-> "run_simulation", raised |-> "no"]
    /\ UNCHANGED gitem

\* Step 4, SimulationManager(network).run_simulation() returning: the
\* business equipment has read its results from the solved network.
RunSolve(v) ==
    /\ gpc = "Solving"
    /\ LET net == SolvedNetwork(OwnNodeIds(gitem.kind), OwnLinkIds(gitem.kind), v)
           out == get_simulation_results(gitem.kind, ResId, DefaultElevation,
                                         grun.business_eq, net, ResConnections)
       IN grun' = [grun EXCEPT !.business_eq = out.results]
    /\ gpc' = "Writing"
    /\ gcall' = [op |-> "run_simulation", raised |-> "no"]
    /\ UNCHANGED gitem

\* Step 4 raising: the exception leaves run_complete_simulation, and the
\* item is as it was.
RunSolveFails ==
    /\ gpc = "Solving"
    /\ gpc' = "Idle"
    /\ gcall' = [op |-> "run_simulation", raised |-> "Exception"]
    /\ UNCHANGED <<gitem, grun>>

\* Step 5, update_gui_with_results(network), and the return.
RunWrite ==
    /\ gpc = "Writing"
    /\ gitem' = update_gui_with_results(gitem, grun.business_eq)
    /\ gpc' = "Idle"
    /\ gcall' = [op |-> "update_gui_with_results", raised |-> "no"]
    /\ UNCHANGED grun

GuiNext ==
    \/ \E kind \in GuiKinds :
          AddItem(kind)
          /\ UNCHANGED <<portVars, netVars, simVars, resVars, hydVars, facVars, cnvVars, unitVars>>
    \/ \E new_def \in GuiProperties :
          UpdateProperties(new_def)
          /\ UNCHANGED <<portVars, netVars, simVars, resVars, hydVars, facVars, cnvVars, unitVars>>
    \/ RunBuild
          /\ UNCHANGED <<portVars, netVars, simVars, resVars, hydVars, facVars, cnvVars, unitVars>>
    \/ \E v \in SolverValues :
          RunSolve(v)
          /\ UNCHANGED <<portVars, netVars, simVars, resVars, hydVars, facVars, cnvVars, unitVars>>
    \/ RunSolveFails
          /\ UNCHANGED <<portVars, netVars, simVars, resVars, hydVars, facVars, cnvVars, unitVars>>
    \/ RunWrite
          /\ UNCHANGED <<portVars, netVars, simVars, resVars, hydVars, facVars, cnvVars, unitVars>>

\* The simulation runs build the graph with calls that succeed: an equipment
\* is added once, and two free ports of equipment of the network, not one
\* port twice, are connected.
CanConnect(e1, p1, e2, p2) ==
    /\ InList(e1, equipments) /\ InList(e2, equipments)
    /\ ~ports[p1].is_connected /\ ~ports[p2].is_connected
    /\ p1 # p2

SimNext ==
    \/ \E o \in SimObj :
          pc = "Idle" /\ ~InList(o, equipments) /\ AddEquipment(o)
          /\ UNCHANGED <<portVars, simVars, resVars, libVars>>
    \/ \E e1, e2 \in ConnectedObj :
          \E p1 \in OwnedPorts(e1), p2 \in OwnedPorts(e2) :
             pc = "Idle" /\ CanConnect(e1, p1, e2, p2)
             /\ ConnectEquipments(e1, p1, e2, p2)
             /\ UNCHANGED <<portVars, simVars, resVars, libVars>>
    \/ \E o \in EditedObj, z \in Elevations :
          SetElevation(o, z) /\ UNCHANGED <<portVars, netVars, resVars, libVars>>
    \/ Construct /\ UNCHANGED <<portVars, netVars, resVars, libVars>>
    \/ RunStart /\ UNCHANGED <<portVars, netVars, resVars, libVars>>
    \/ SolverFails /\ UNCHANGED <<portVars, netVars, resVars, libVars>>
    \/ \E v \in SolverValues :
          SolverReturns(v) /\ UNCHANGED <<portVars, netVars, resVars, libVars>>
    \/ Harvest /\ UNCHANGED <<portVars, netVars, resVars, libVars>>

NetNext ==
    \/ \E o \in NetObj : AddEquipment(o) /\ UNCHANGED <<portVars, simVars, resVars, libVars>>
    \/ \E e1, e2 \in NetObj, p1, p2 \in NetPortObj :
          ConnectEquipments(e1, p1, e2, p2) /\ UNCHANGED <<portVars, simVars, resVars, libVars>>
    \/ ValidateFlowcad /\ UNCHANGED <<portVars, simVars, resVars, libVars>>

\* The series network is assembled in any order of successful calls, and
\* validated and translated at any point.
SeriesNext ==
    \/ \E o \in SeriesObj :
          ~InList(o, equipments) /\ AddEquipment(o)
          /\ UNCHANGED <<portVars, simVars, resVars, libVars>>
    \/ \E e1, e2 \in SeriesObj :
          \E p1 \in OwnedPorts(e1), p2 \in OwnedPorts(e2) :
             CanConnect(e1, p1, e2, p2) /\ ConnectEquipments(e1, p1, e2, p2)
             /\ UNCHANGED <<portVars, simVars, resVars, libVars>>
    \/ ValidateFlowcad /\ UNCHANGED <<portVars, simVars, resVars, libVars>>
    \/ ToHydraulicNetwork /\ UNCHANGED <<portVars, simVars, resVars, libVars>>

\* A boundary, a resistance and a tee assembled in any order of successful
\* calls, and validated and translated at any point.
MixedNext ==
    \/ \E o \in MixedObj :
          ~InList(o, equipments) /\ AddEquipment(o)
          /\ UNCHANGED <<portVars, simVars, resVars, libVars>>
    \/ \E e1, e2 \in MixedObj :
          \E p1 \in OwnedPorts(e1), p2 \in OwnedPorts(e2) :
             CanConnect(e1, p1, e2, p2) /\ ConnectEquipments(e1, p1, e2, p2)
             /\ UNCHANGED <<portVars, simVars, resVars, libVars>>
    \/ ValidateFlowcad /\ UNCHANGED <<portVars, simVars, resVars, libVars>>
    \/ ToHydraulicNetwork /\ UNCHANGED <<portVars, simVars, resVars, libVars>>

NetPortsNext ==
    \/ \E o \in NetObj : AddEquipment(o) /\ UNCHANGED <<portVars, simVars, resVars, libVars>>
    \/ \E e1, e2 \in NetObj :
          \E p1 \in OwnedPorts(e1), p2 \in OwnedPorts(e2) :
             ConnectEquipments(e1, p1, e2, p2)
             /\ UNCHANGED <<portVars, simVars, resVars, libVars>>
    \/ \E r, q \in NetPortObj : DirectConnect(r, q) /\ UNCHANGED <<portVars, simVars, resVars, libVars>>
    \/ \E r \in NetPortObj : DirectDisconnect(r) /\ UNCHANGED <<portVars, simVars, resVars, libVars>>

Init == PortInit /\ NetInit /\ SimInit /\ ResInit /\ HydInit /\ FacInit
        /\ ZetaInit /\ UnitInit /\ GuiInit

\* One Port object under arbitrary connect and disconnect calls.
SpecPort == Init /\ [][PortNext]_vars
\* A NetworkEquipment under add_equipment and connectEquipments calls.
SpecNet == Init /\ [][NetNext]_vars
\* A NetworkEquipment whose equipment are connected by their own ports, with
\* Port.connect and Port.disconnect called on port objects directly too.
SpecNetPorts == Init /\ [][NetPortsNext]_vars
\* A SimulationManager over an equipment graph that is built and edited
\* between its construction and its runs.
SpecSim == Init /\ [][SimNext]_vars
\* One equipment of each variant, reading results from solved networks.
SpecRes == Init /\ [][ResNext]_vars
\* One HydraulicNetwork under arbitrary add_node and add_link calls.
SpecHyd == Init /\ [][HydNext]_vars
\* The equipment factory creating valves and resistances from property bags.
SpecFactory == Init /\ [][FacNext]_vars
\* zeta_from_kv called on pairs of Kv values.
SpecZeta == Init /\ [][ZetaNext]_vars
\* The UnitManager: units chosen, values displayed and read back.
SpecUnits == Init /\ [][UnitNext]_vars
\* The canvas item edited and simulated from the main window.
SpecGui == Init /\ [][GuiNext]_vars
\* A boundary, a resistance and a tee assembled, validated and translated.
SpecMixed == Init /\ [][MixedNext]_vars
\* Two boundaries and two pipes assembled, validated and translated.
SpecSeries == Init /\ [][SeriesNext]_vars

(***************************************************************************)
(* Claims                                                                  *)
(***************************************************************************)

\* The ports of the equipment held by the network.
NetworkPorts == UNION {OwnedPorts(equipments[i]) : i \in 1 .. Len(equipments)}

\* Port r records port q as its peer.
RecordsPeer(r, q) ==
    /\ ports[r].is_connected
    /\ ports[r].connected_to_equipment = ports[q].parent_equipment_id
    /\ ports[r].connected_to_port = ports[q].id

\* C1: a connectEquipments call that fails leaves the connected flag and the
\* peer fields of every port, and the whole connection registry, exactly as
\* they were before the call.
C1_ConnectAllOrNothing ==
    (ncall.op = "connectEquipments" /\ ncall.raised # "no")
        => (ncall.portsKept /\ ncall.connectionsKept)

\* C2: the registry is in lock-step with the ports: the id of a port of an
\* equipment of the network is a key of the registry exactly when the port is
\* connected, and two such ports map to the same connection name exactly when
\* each is the other's recorded peer.
C2_RegistryLockStep ==
    /\ \A r \in NetworkPorts :
          (ports[r].id \in DOMAIN connections) <=> ports[r].is_connected
    /\ \A r, q \in NetworkPorts :
          r # q =>
            ((/\ ports[r].id \in DOMAIN connections
              /\ ports[q].id \in DOMAIN connections
              /\ connections[ports[r].id] = connections[ports[q].id])
             <=> (RecordsPeer(r, q) /\ RecordsPeer(q, r)))

\* Port.connect's failure conditions, as the claim lists them.
MustFail(p, e, q) ==
    \/ p.is_connected
    \/ ~Truthy(e) \/ ~Truthy(Strip(e))
    \/ ~Truthy(q) \/ ~Truthy(Strip(q))
    \/ (p.parent_equipment_id = Strip(e) /\ p.id = Strip(q))

\* C3: Port.connect fails when the port is connected, when an id is empty
\* (also once stripped) or when the arguments name the port itself; a failing
\* call leaves the flag and both peer ids unchanged, and the port is never
\* marked connected with a missing peer.
C3_ConnectFailsUnchanged ==
    /\ pcall.op = "connect" =>
          /\ MustFail(pcall.before, pcall.eq, pcall.pt) => pcall.raised # "no"
          /\ pcall.raised # "no" => port = pcall.before
    /\ port.is_connected =>
          (Truthy(port.connected_to_equipment) /\ Truthy(port.connected_to_port))

\* C4: a successful connect followed by disconnect leaves the port free, with
\* the flag false and both peer ids absent, as a freshly constructed port, and
\* validate() then returns no problem.
C4_ConnectDisconnectIsFresh ==
    (pcall.op = "disconnect" /\ pcall.prevOp = "connect" /\ pcall.prevRaised = "no")
        => /\ port.is_connected = FALSE
           /\ port.connected_to_equipment = None
           /\ port.connected_to_port = None
           /\ port = NewPort(port.id, port.parent_equipment_id)
           /\ pcall.errors = <<>>

\* C5: no two equipment held by the network have the same id, and adding an
\* equipment whose id an equipment of the network already has is rejected and
\* leaves the equipment list unchanged.
C5_EquipmentIdsUnique ==
    /\ \A i, j \in 1 .. Len(equipments) :
          i # j => EqId(equipments[i]) # EqId(equipments[j])
    /\ (ncall.op = "add_equipment" /\ ncall.idPresent)
          => (ncall.raised # "no" /\ ncall.equipmentsKept)

\* C6: a run that fails while the hydraulic network is assembled, while it is
\* validated or inside the solver leaves every result field of every
\* equipment and of every port as it was before the run.  Stated on the steps
\* of a run: the construction of the manager, the call of run_simulation, the
\* solver's return and a failure in one of the three phases each leave the
\* results as they are, so a run made of them ends with the results it
\* started with.
C6_FailedRunKeepsResults ==
    [][(pc' # "Idle"
        \/ run'.failedIn \in {"Assembling", "Validating", "Solving"})
          => results' = results]_vars

\* A run on equipment that hold the results of an earlier run has failed in
\* the solver.
C6_Witness ==
    /\ pc = "Idle"
    /\ run.failedIn = "Solving"
    /\ \E i \in 1 .. Len(equipments) : results[equipments[i]] # NoResults

\* What an equipment holds once run_simulation is over: nothing, or what it
\* reads from the network this run solved.
HoldsNone(o) == results[o] = NoResults
HoldsNew(o) ==
    LET r == get_simulation_results(Pool[o].kind, EqId(o), elevation[o],
                                    NoResults, manager.hydraulic_network,
                                    connections)
    IN r.raised = "no" /\ results[o] = r.results

\* C7: when run_simulation returns or raises, at whatever point, the
\* equipment of the network hold, all alike, their values of before the run,
\* no results, or the results of this run: never old values on some and new
\* ones on others.  The values of before the run are the ones of the state
\* the last step of the run starts in, no earlier step of a run writing any.
C7_ResultsUniform ==
    [][(pc # "Idle" /\ pc' = "Idle") =>
         LET held == {equipments[i] : i \in 1 .. Len(equipments)} IN
         \/ \A o \in held : results'[o] = results[o]
         \/ \A o \in held : HoldsNone(o)'
         \/ \A o \in held : HoldsNew(o)']_vars

\* What the translation decides of a network: its nodes with their kind,
\* elevation, demand and (for a reservoir) head, and its links with their
\* ends; the results read into the components are left out.
Structure(net) ==
    [nodes |-> [n \in DOMAIN net.nodes |->
                  [type |-> net.nodes[n].type,
                   elevation |-> net.nodes[n].elevation,
                   demand |-> net.nodes[n].demand,
                   head |-> IF net.nodes[n].type = "Reservoir"
                            THEN net.nodes[n].head ELSE Absent]],
     links |-> [l \in DOMAIN net.links |->
                  [type |-> net.links[l].type,
                   start_node |-> net.links[l].start_node,
                   end_node |-> net.links[l].end_node]]]

\* C8: the network handed to the solver is the translation of the equipment
\* graph as it is when run_simulation is called: equipment, connections and
\* parameters changed since the manager was constructed are in it.
C8_NetworkRegenerated ==
    pc = "Solving" =>
        LET net == to_hydraulic_network(equipments, connections, elevation) IN
        /\ net.raised = "no"
        /\ Structure(manager.hydraulic_network) = Structure(net)

\* C9: a run goes through Assembling, Validating, Solving and Harvesting in
\* that order: the solver is invoked only on a network validated in the same
\* run, and Harvesting is entered only when the solver has succeeded.
C9_RunPhases ==
    /\ pc = "Solving" =>
          run.phases = <<"Assembling", "Validating", "Solving">>
    /\ pc = "Harvesting" =>
          /\ run.phases =
                <<"Assembling", "Validating", "Solving", "Harvesting">>
          /\ run.value \in SolverValues
          /\ run.raised = "no"

\* C10: for every variant, get_simulation_results on a solved network that
\* has none of the equipment's node ids and link ids does not raise, and
\* leaves every result field of the equipment and the pressure and head of
\* every one of its ports absent.
C10_AbsentIdsResetResults ==
    (rcall.op = "get_simulation_results" /\ rcall.nodes = {} /\ rcall.links = {})
        => (rcall.raised = "no" /\ rres = NoResults)

\* The places in the equipment list of the equipment that own a port the
\* registry maps to the connection name c, and the node with that id among
\* the components the equipment at place i generates.
Writers(c) ==
    {i \in 1 .. Len(equipments) :
        \E k \in 1 .. PortCount(Pool[equipments[i]].kind) :
            LET p == EqId(equipments[i]) \o PortSuffix[k] IN
            p \in DOMAIN connections /\ connections[p] = c}

FirstWriter(c) == CHOOSE i \in Writers(c) : \A j \in Writers(c) : i <= j

GeneratedNode(i, c) ==
    LET o   == equipments[i]
        rep == generate_hydraulic_representation(Pool[o].kind, EqId(o),
                                                 elevation[o], connections)
        at  == CHOOSE n \in 1 .. Len(rep.components) :
                   /\ IsNode(rep.components[n]) /\ rep.components[n].id = c
                   /\ \A m \in 1 .. n - 1 : ~(IsNode(rep.components[m])
                                                /\ rep.components[m].id = c)
    IN rep.components[at]

\* C11: in to_hydraulic_network the node two connected equipment share is
\* inserted once: the network holds under the connection name the node
\* generated by the one of the two that is first in the equipment list, and
\* generating it a second time raises nothing (translation never ends in the
\* ValueError of add_node).
C11_SharedNodeFirstWriterWins ==
    LET net == to_hydraulic_network(equipments, connections, elevation) IN
    /\ net.raised # "ValueError"
    /\ net.raised = "no" =>
          \A c \in {connections[p] : p \in DOMAIN connections} :
              Writers(c) # {} =>
                 /\ c \in DOMAIN net.nodes
                 /\ net.nodes[c] = GeneratedNode(FirstWriter(c), c)

\* A network translates without error in which a pipe precedes, in the
\* equipment list, the pressure boundary it is connected to: the shared node
\* is the pipe's junction, the boundary's reservoir is skipped.
C11_Witness ==
    LET net == to_hydraulic_network(equipments, connections, elevation) IN
    /\ net.raised = "no"
    /\ \E c \in {connections[p] : p \in DOMAIN connections} :
          /\ Cardinality(Writers(c)) = 2
          /\ Pool[equipments[FirstWriter(c)]].kind = "Pipe"
          /\ \E j \in Writers(c) : Pool[equipments[j]].kind = "PressureBC"
          /\ net.nodes[c].type = "Junction"

\* Ports r and q record each other as peers.
Linked(r, q) == RecordsPeer(r, q) /\ RecordsPeer(q, r)

\* The network is the series one: the four equipment are in the list, and
\* the three connections are boundary X to one end of a pipe, its other end
\* to one end of the other pipe, and that one's other end to boundary Y.
IsSeries ==
    /\ \A o \in SeriesObj : InList(o, equipments)
    /\ \E p, q \in {2, 6} : \E a, b \in {1, 2} :
          /\ p # q
          /\ Linked(<<1, 1>>, <<p, a>>)
          /\ Linked(<<p, 3 - a>>, <<q, b>>)
          /\ Linked(<<q, 3 - b>>, <<4, 1>>)

\* What to_hydraulic_network returned has n nodes and two links, no id is
\* held twice, and validate_flowcad returns the empty list.
SeriesTranslation(n) ==
    /\ ncall.raised = "no"
    /\ Len(ncall.network) = 1
    /\ LET net == ncall.network[1] IN
          /\ Cardinality(DOMAIN net.nodes) = n
          /\ Cardinality(DOMAIN net.links) = 2
          /\ DOMAIN net.nodes \cap DOMAIN net.links = {}
          /\ \A k \in DOMAIN net.nodes : net.nodes[k].id = k
          /\ \A k \in DOMAIN net.links : net.links[k].id = k
    /\ validate_flowcad(equipments, ports) = <<>>

\* C12 as stated: for the series network boundary - pipe - pipe - boundary,
\* to_hydraulic_network returns a network of exactly 4 nodes and 2 links with
\* no duplicate ids, and validate_flowcad returns the empty list.
C12_SeriesFourNodes ==
    (ncall.op = "to_hydraulic_network" /\ IsSeries) => SeriesTranslation(4)

\* C12 amended: the network returned for the series network has exactly 3
\* nodes, one for each of the three connections, and 2 links, with no
\* duplicate ids, and validate_flowcad returns the empty list.
C12_SeriesThreeNodes ==
    (ncall.op = "to_hydraulic_network" /\ IsSeries) => SeriesTranslation(3)

\* to_hydraulic_network has been called on the series network.
C12_Witness ==
    /\ ncall.op = "to_hydraulic_network" /\ IsSeries
    /\ Len(ncall.network) = 1
    /\ DOMAIN ncall.network[1].links = {"P", "Q"}

\* The ports of the listed equipment whose is_connected is false.
UnconnectedPorts == {r \in NetworkPorts : ~ports[r].is_connected}

\* C15: validate_flowcad never raises and changes nothing, and what it
\* returns is one message for each port, among the ports of the equipment of
\* the network, that is not connected, and nothing else: the list is as long
\* as there are such ports, each of them has its message in it, each message
\* is the one of such a port, and the list is empty exactly when every port of
\* every equipment is connected.
C15_ValidateListsUnconnectedPorts ==
    ncall.op = "validate_flowcad" =>
        /\ ncall.raised = "no"
        /\ ncall.equipmentsKept /\ ncall.portsKept /\ ncall.connectionsKept
        /\ Len(ncall.errors) = Cardinality(UnconnectedPorts)
        /\ \A r \in UnconnectedPorts :
              \E i \in 1 .. Len(ncall.errors) :
                 ncall.errors[i] = UnconnectedMessage(ports[r].id, EqId(r[1]))
        /\ \A i \in 1 .. Len(ncall.errors) :
              \E r \in UnconnectedPorts :
                 ncall.errors[i] = UnconnectedMessage(ports[r].id, EqId(r[1]))
        /\ (ncall.errors = <<>>) <=>
              (\A r \in NetworkPorts : ports[r].is_connected)

\* validate_flowcad has returned one message for a network of a boundary and a
\* pipe of which one port is connected and one is not.
C15_Witness ==
    /\ ncall.op = "validate_flowcad"
    /\ Len(equipments) >= 2
    /\ Len(ncall.errors) = 1
    /\ \E r \in NetworkPorts : ports[r].is_connected
    /\ \E o \in {equipments[i] : i \in 1 .. Len(equipments)} :
          /\ Pool[o].kind = "Pipe"
          /\ ~ports[<<o, 2>>].is_connected

\* C13: in every state of a HydraulicNetwork reached by add_node and add_link
\* calls, both ends of every stored link are ids of stored nodes; and an
\* add_link whose start or end is no stored node is rejected and leaves the
\* nodes and the links as they were.
C13_LinkEndsAreNodes ==
    /\ \A k \in DOMAIN hnet.links :
          /\ hnet.links[k].start_node \in DOMAIN hnet.nodes
          /\ hnet.links[k].end_node \in DOMAIN hnet.nodes
    /\ (hcall.op = "add_link" /\ hcall.missingEnd)
          => (hcall.raised # "no" /\ hcall.kept)

\* An add_link with an end that is no node has been rejected by a network
\* that holds a link.
C13_Witness ==
    /\ hcall.op = "add_link" /\ hcall.missingEnd /\ hcall.raised = "ValueError"
    /\ DOMAIN hnet.links # {}

\* C14: node and link ids are unique across one HydraulicNetwork: no id is
\* the id of two stored components, be they two nodes, two links, or a node
\* and a link; and an add_node or add_link with an id already in use is
\* rejected and changes nothing.
C14_IdsGloballyUnique ==
    /\ \A k \in DOMAIN hnet.nodes : hnet.nodes[k].id = k
    /\ \A k \in DOMAIN hnet.links : hnet.links[k].id = k
    /\ DOMAIN hnet.nodes \cap DOMAIN hnet.links = {}
    /\ (hcall.op \in {"add_node", "add_link"} /\ hcall.idInUse)
          => (hcall.raised # "no" /\ hcall.kept)

\* C16: a Valve created from a property bag whose opening percentage is
\* outside [0, 100] is rejected with an error and no equipment is created,
\* whichever the control law: linear, equal_percentage or binary.
C16_OutOfRangeOpeningRejected ==
    (/\ fcall.op = "ValveEquipment"
     /\ fcall.control \in {"linear", "equal_percentage", "binary"}
     /\ fcall.opening.t = "number"
     /\ (fcall.opening.v < 0 \/ fcall.opening.v > 100))
        => (fcall.out.raised # "no" /\ ~fcall.out.created)

\* C17: the linear law of the factory: for any rated Kv, opening 0 gives
\* status CLOSED and an effective Kv of 0, opening 100 gives OPEN and the
\* rated Kv, opening 50 gives half the rated Kv, and every opening strictly
\* between 0 and 100 gives ACTIVE and rated Kv * opening / 100.
C17_LinearLaw ==
    (/\ fcall.op = "ValveEquipment" /\ fcall.control = "linear"
     /\ fcall.opening.t = "number"
     /\ fcall.opening.v >= 0 /\ fcall.opening.v <= 100)
        => LET o == fcall.opening.v
               kv == fcall.kv_s
               out == fcall.out
           IN /\ out.created
              /\ o = 0 => (out.status = "CLOSED" /\ out.kv_eff = 0)
              /\ o = 100 => (out.status = "OPEN" /\ out.kv_eff = kv)
              /\ o = 50 => 2 * out.kv_eff = kv
              /\ (0 < o /\ o < 100)
                    => (out.status = "ACTIVE" /\ 100 * out.kv_eff = kv * o)

\* A valve of the linear law has been created at an opening strictly between
\* 0 and 100 other than 50.
C17_Witness ==
    /\ fcall.op = "ValveEquipment" /\ fcall.control = "linear"
    /\ fcall.opening = [t |-> "number", v |-> 75]
    /\ fcall.out.created /\ fcall.out.status = "ACTIVE"
    /\ fcall.out.kv_eff > 0

\* C18: zeta_from_kv is decreasing in Kv at a fixed diameter: for every
\* diameter and all Kv values 0 <= kv1 < kv2, kv1 = 0 (the Kv of a valve at
\* opening 0) included, zeta_from_kv(kv1, d) >= zeta_from_kv(kv2, d).
C18_ZetaDecreasingInKv ==
    (zcall.diameter > 0 /\ 0 <= zcall.kv1 /\ zcall.kv1 < zcall.kv2)
        => zcall.zeta1 >= zcall.zeta2

\* C19: for every pressure unit, a pascal value displayed in the unit and
\* read back from it is the value it was, the two factors of the unit
\* multiplying to 1; and the same for every flow unit.
C19_UnitRoundTrip ==
    /\ \A u \in PressureUnit :
          SameValue(Times(pressure_conversions[u],
                          pressure_input_conversions[u]), Frac(1))
    /\ \A u \in FlowUnit :
          SameValue(Times(flow_conversions[u], flow_input_conversions[u]),
                    Frac(1))
    /\ ucall.op \in {"input_pressure_to_pa", "input_flow_to_m3s"}
          => SameValue(ucall.ret, ucall.shown)

\* 250 Pa has been displayed in metres of water column and read back.
C19_Witness ==
    /\ ucall.op = "input_pressure_to_pa" /\ ucall.unit = "mCE"
    /\ ucall.shown = Frac(250)
    /\ ~SameValue(ucall.arg, ucall.shown)

\* C20: every type the factory creates as a HydraulicResistanceEquipment is
\* created, with a status of OPEN or CLOSED: OPEN for the check valve, OPEN
\* at an opening of 50 or more and CLOSED below for the controllable ones, and
\* for no type of the family creation fails for lack of a status.
C20_ResistanceStatusDefined ==
    (fcall.op = "HydraulicResistanceEquipment" /\ fcall.opening.t # "text")
        => /\ fcall.out.created
           /\ fcall.out.status \in {"OPEN", "CLOSED"}
           /\ fcall.equipment_type = "CAR" => fcall.out.status = "OPEN"
           /\ fcall.equipment_type \in {"V1", "Vb"} =>
                 (fcall.out.status = "OPEN"
                    <=> GetOpening(fcall.opening).v >= 50)

\* C21: the factory fails with an explicit unknown-type or not-implemented
\* error, and creates no equipment, when the class name is that of no
\* equipment variant and when a three-way valve is asked for with the
\* equal_percentage law; it fails with no other error in these cases.
C21_FactoryFailsExplicitly ==
    LET Explicit ==
            /\ fcall.out.raised \in {"ValueError", "NotImplementedError"}
            /\ ~fcall.out.created
    IN  /\ (/\ fcall.op = "create_from_gui_item"
            /\ fcall.class_name \notin EquipmentVariants) => Explicit
        /\ (/\ fcall.class_name = "ThreeWayValveEquipment"
            /\ fcall.control = "equal_percentage") => Explicit

\* C26: the linear law of the three-way valve: for every opening in [0, 100]
\* branch 1 gets the effective Kv rated Kv * opening / 100 and branch 2 rated
\* Kv * (100 - opening) / 100, the two adding up to the rated Kv, each
\* branch's setting is computed from its effective Kv, and the statuses are
\* CLOSED/OPEN at 0, OPEN/CLOSED at 100 and ACTIVE/ACTIVE in between; the
\* translation is one Pipe from port 1 into the node '<id>_Mid' and two Valve
\* links from that node to ports 2 and 3, carrying the two branches' settings
\* and statuses.
C26_ThreeWayLinearLaw ==
    LET o == GetOpening(fcall.opening).v
        kv == fcall.kv_s
        out == fcall.out
        Links == {c \in {fgen.components[i] : i \in DOMAIN fgen.components} :
                    ~IsNode(c)}
        Mid == FactoryId \o "_Mid"
        N(k) == fgen.conn[FactoryId \o PortSuffix[k]]
    IN
    /\ (/\ fcall.op = "ThreeWayValveEquipment" /\ fcall.control = "linear"
        /\ fcall.opening.t # "text" /\ o >= 0 /\ o <= 100)
          => /\ out.created
             /\ out.kv_eff * 100 = kv * o
             /\ out.kv_eff_2 * 100 = kv * (100 - o)
             /\ out.kv_eff + out.kv_eff_2 = kv
             /\ out.setting = zeta_from_kv(out.kv_eff, fcall.diameter)
             /\ out.setting_2 = zeta_from_kv(out.kv_eff_2, fcall.diameter)
             /\ <<out.status, out.status_2>> =
                    IF o = 0 THEN <<"CLOSED", "OPEN">>
                    ELSE IF o = 100 THEN <<"OPEN", "CLOSED">>
                    ELSE <<"ACTIVE", "ACTIVE">>
    /\ (fgen.op = "generate_hydraulic_representation" /\ fgen.raised = "no")
          => /\ Cardinality(Links) = 3
             /\ \E pipe, v1, v2 \in Links :
                   /\ pipe.type = "Pipe"
                   /\ pipe.start_node = N(1) /\ pipe.end_node = Mid
                   /\ v1.type = "Valve"
                   /\ v1.start_node = Mid /\ v1.end_node = N(2)
                   /\ v1.setting = out.setting /\ v1.status = out.status
                   /\ v2.type = "Valve"
                   /\ v2.start_node = Mid /\ v2.end_node = N(3)
                   /\ v2.setting = out.setting_2
                   /\ v2.status = out.status_2
             /\ \E n \in {fgen.components[i] : i \in DOMAIN fgen.components} :
                   IsNode(n) /\ n.id = Mid

\* A three-way valve created at an opening of 25 with a rated Kv of 1.0 and
\* translated with its three ports under three connections.
C26_Witness ==
    /\ fcall.op = "ThreeWayValveEquipment" /\ fcall.control = "linear"
    /\ fcall.opening = [t |-> "number", v |-> 25] /\ fcall.kv_s = 1000
    /\ fcall.out.kv_eff = 250 /\ fcall.out.kv_eff_2 = 750
    /\ fcall.out.status = "ACTIVE" /\ fcall.out.status_2 = "ACTIVE"
    /\ fcall.out.setting # fcall.out.setting_2
    /\ fgen.op = "generate_hydraulic_representation" /\ fgen.raised = "no"
    /\ Cardinality({fgen.conn[p] : p \in DOMAIN fgen.conn}) = 3
    /\ Len(fgen.components) = 7

\* The value a result shows when there is none: None, or the 0.0 of a
\* cleared key.
Cleared(v) == v \in {Absent, Some(0)}

OnePeerNotItself(q) ==
    /\ q.connected_to_equipment \in STRING \cup {None}
    /\ q.connected_to_port \in STRING \cup {None}
    /\ ~(/\ q.connected_to_equipment = q.parent_equipment_id
         /\ q.connected_to_port = q.id)

\* C23: in every state reached by Port.connect, Port.disconnect and
\* connectEquipments calls a port records at most one peer, never records
\* itself (its own owner id with its own port id) as its peer, and has the id
\* and the owner id it was constructed with.
C23_PortInvariants ==
    /\ \A r \in DOMAIN ports :
          /\ OnePeerNotItself(ports[r])
          /\ ports[r].id = ConstructedPort(r).id
          /\ ports[r].parent_equipment_id
                = ConstructedPort(r).parent_equipment_id
    /\ OnePeerNotItself(port)
    /\ port.id = "P1" /\ port.parent_equipment_id = "E1"

\* The pipe and the reservoir connected port to port, each recording the
\* other, and a later connectEquipments call refused that left every port as
\* it was.
C23_Witness ==
    /\ ncall.op = "connectEquipments" /\ ncall.raised = "ValueError"
    /\ ncall.portsKept
    /\ ports[<<1, 1>>].is_connected
    /\ ports[<<1, 1>>].connected_to_port = "P_P1"
    /\ ports[<<2, 1>>].connected_to_equipment = "X"
    /\ ~ports[<<2, 2>>].is_connected

LinkIdsOf(o) ==
    CASE Pool[o].kind \in {"Pump", "Pipe", "Resistance", "Valve"} -> {EqId(o)}
      [] Pool[o].kind = "Tee" ->
            {EqId(o) \o "_Pipe1", EqId(o) \o "_Pipe2", EqId(o) \o "_Pipe3"}
      [] Pool[o].kind = "ThreeWayValve" ->
            {EqId(o) \o "_Pipe1", EqId(o) \o "_Valve1", EqId(o) \o "_Valve2"}
      [] OTHER -> {}

\* C28: for a network of equipment of pairwise distinct ids built by
\* add_equipment and connectEquipments, when validate_flowcad returns the
\* empty list to_hydraulic_network does not raise and returns a network that
\* holds the links of every equipment.
C28_ValidNetworkTranslates ==
    (/\ ncall.op = "to_hydraulic_network"
     /\ \A i, j \in 1 .. Len(equipments) :
           i # j => EqId(equipments[i]) # EqId(equipments[j])
     /\ validate_flowcad(equipments, ports) = <<>>)
        => /\ ncall.raised = "no"
           /\ Len(ncall.network) = 1
           /\ \A i \in 1 .. Len(equipments) :
                 LinkIdsOf(equipments[i]) \subseteq DOMAIN ncall.network[1].links

\* The equipment list in every order.
Reordered ==
    LET n == Len(equipments) IN
    {[i \in 1 .. n |-> equipments[f[i]]] :
        f \in {g \in [1 .. n -> 1 .. n] :
                 \A i, j \in 1 .. n : i # j => g[i] # g[j]}}

\* C27: the network to_hydraulic_network returns does not depend on the order
\* in which the equipment were added: the same equipment and connections in
\* another order give nodes of the same kinds and attributes, and the node at
\* the port of a pressure boundary is a Reservoir with the head of that
\* equipment.
C27_OrderIndependent ==
    (ncall.op = "to_hydraulic_network" /\ ncall.raised = "no")
        => LET net == ncall.network[1] IN
           /\ \A eqs \in Reordered :
                 LET other == to_hydraulic_network(eqs, connections, elevation)
                 IN other.raised = "no" /\ other.nodes = net.nodes
           /\ \A i \in 1 .. Len(equipments) :
                 LET o == equipments[i]
                     pt == EqId(o) \o PortSuffix[1]
                 IN (Pool[o].kind = "PressureBC" /\ pt \in DOMAIN connections)
                      => /\ net.nodes[connections[pt]].type = "Reservoir"
                         /\ net.nodes[connections[pt]].head
                              = Some(pressure_to_head(DefaultPressureBar,
                                                      elevation[o]))

\* C29: no link of a network returned by to_hydraulic_network has the same
\* node as its start and its end, whatever the graph add_equipment and
\* connectEquipments built, two ports of one equipment connected to each
\* other included.
C29_NoSelfLoopLink ==
    (ncall.op = "to_hydraulic_network" /\ ncall.raised = "no")
        => \A l \in DOMAIN ncall.network[1].links :
              ncall.network[1].links[l].start_node
                 # ncall.network[1].links[l].end_node

\* C30: in every state reached by add_equipment and connectEquipments calls,
\* a connected port of an equipment of the network records as its peer a port
\* q of an equipment e of the network, q is connected and records that port
\* and its owner as its peer, and the ids of the two ports are under the same
\* connection name in the registry.
C30_PeerSymmetry ==
    \A r \in NetworkPorts :
       ports[r].is_connected
          => \E q \in NetworkPorts :
                /\ RecordsPeer(r, q) /\ RecordsPeer(q, r)
                /\ EqId(q[1]) = ports[r].connected_to_equipment
                /\ ports[r].id \in DOMAIN connections
                /\ ports[q].id \in DOMAIN connections
                /\ connections[ports[r].id] = connections[ports[q].id]

====
